---- MODULE Spec2Model ----
(***************************************************************************)
(* CIRC: atomic reference counting over epoch-based reclamation.          *)
(*                                                                         *)
(* The model follows src/src/internal/utils.rs (the counted block and its  *)
(* strong-count protocol), src/src/internal/smr/ebr.rs (the critical       *)
(* section's defer) and src/src/strong.rs (Rc, Snapshot, AtomicRc).  The   *)
(* epoch engine behind the guard (global epoch, pinning, the deferred      *)
(* bags), the weak counter and the epoch-tagged pointer word are not part  *)
(* of those files; they are modelled from sections 3, 4.1, 4.2 and 4.3 of  *)
(* the specification.                                                      *)
(***************************************************************************)
EXTENDS Integers, Sequences, FiniteSets, Bags, TLC

(* ------------------------------ bounds -------------------------------- *)

NThreads == 2
NBlocks == 1
MaxEpoch == 4
MaxRc == 2
MaxWeak == 2
MaxWeakCount == 6
TagBits == 2
MaxTag == 1
HighBits == 1
PtrBits == 1

Threads == 1..NThreads
Blocks == 1..NBlocks
Null == 0
Unpinned == -1

(* ------------------------- the tagged pointer ------------------------- *)

\* utils.rs low_bits: the mask of the low bits left unused by the alignment.
LowBits == (2 ^ TagBits) - 1

\* The pointer word: the block it names (Null for none), the user tag in the
\* low bits and the installation epoch in the high bits.
Word(p, t, h) == [ptr |-> p, tag |-> t, hi |-> h]

NullWord == Word(Null, 0, 0)

\* Tagged::is_null: the raw pointer, without its tags, is null.
IsNull(w) == w.ptr = Null

\* Tagged::with_tag: replaces the low tag, truncated to the low bits.
WithTag(w, t) == [w EXCEPT !.tag = t % (LowBits + 1)]

\* with_high_tag (spec 3, 4.1): replaces the epoch tag by the epoch modulo 2^k.
WithHighTag(w, e) == [w EXCEPT !.hi = e % (2 ^ HighBits)]

\* ptr_eq (spec 3): the raw pointer and the low tag, the epoch tag ignored.
PtrEq(a, b) == a.ptr = b.ptr /\ a.tag = b.tag

(* ----------------------- the pointer word as bits --------------------- *)

\* The machine word: the high tag above the block's number above the low tag.
WordBits == HighBits + PtrBits + TagBits

\* Every value a pointer word can take.
Bits == 0..((2 ^ WordBits) - 1)

\* Tagged::tag: ptr & low_bits.
Tag(p) == p % (LowBits + 1)

\* Tagged::as_raw: ptr & !low_bits.
AsRaw(p) == p - (p % (LowBits + 1))

\* A with_tag that does not mask its tag: the tag's upper bits reach the pointer.
BitsWithTagUnmasked(p, t) == (AsRaw(p) + t) % (2 ^ WordBits)

\* utils.rs with_tag: (ptr & !low_bits) | (tag & low_bits).
BitsWithTag(p, t) == AsRaw(p) + (t % (LowBits + 1))

\* high_tag (spec 3): the topmost bits of the word.
HighTag(p) == p \div (2 ^ (PtrBits + TagBits))

\* ptr_eq (spec 3) on the machine word: the words agree below the high tag.
BitsPtrEq(a, b) == (a % (2 ^ (PtrBits + TagBits))) = (b % (2 ^ (PtrBits + TagBits)))

\* with_high_tag (spec 3, 4.1) on the machine word.
BitsWithHighTag(p, e) ==
    (p % (2 ^ (PtrBits + TagBits))) + ((e % (2 ^ HighBits)) * (2 ^ (PtrBits + TagBits)))

\* The word of the model as the machine word, and back.
Encode(w) == (w.hi * (2 ^ (PtrBits + TagBits))) + (w.ptr * (LowBits + 1)) + w.tag

Decode(p) == Word((AsRaw(p) % (2 ^ (PtrBits + TagBits))) \div (LowBits + 1), Tag(p), HighTag(p))

(* ------------------------------- state -------------------------------- *)

VARIABLES
    strong,     \* RcInner::strong of each block
    weak,       \* the weak counter of each block
    alloc,      \* the blocks that create_object has returned
    disposed,   \* how many times RcInner::dispose ran on each block
    freed,      \* the blocks whose memory delete_object has released
    link,       \* AtomicRc::link, the word in the shared slot
    linkLive,   \* whether the AtomicRc exists (not yet dropped)
    rcs,        \* the Rc handles each thread owns, a bag of words
    weaks,      \* the Weak handles each thread owns, a bag of words
    iter,       \* the NewRcIter each thread holds: its block and its remain
    snap,       \* the Snapshot each thread holds under its guard
    pc,         \* where each thread stands inside a multi-step operation
    arg,        \* the locals of the operation a thread is inside
    res,        \* what a thread's last compare_exchange returned
    epoch,      \* the global epoch
    local,      \* each thread's pinned epoch, Unpinned outside a guard
    bags,       \* the deferred try_zero closures, stamped with their epoch
    zeroing,    \* per block, the try_zero runs that read strong = 0 and have yet to dispose
    resurrected,    \* blocks on which increment_strong has seen a prior count of 0
    destruct_epoch, \* the global epoch at each block's last strong-zero transition
    heap,       \* the test programs' shared structure: its nodes, head and tail
    frames      \* the test programs' threads: where each stands, its locals and results

vars == <<strong, weak, alloc, disposed, freed, link, linkLive, rcs, weaks, iter, snap,
          pc, arg, res, epoch, local, bags, zeroing, resurrected, destruct_epoch,
          heap, frames>>

NoSnap == [ptr |-> -1, tag |-> 0, hi |-> 0]
NoIter == [ptr |-> Null, remain |-> 0]
NoArg == [op |-> "none"]
NoRes == [kind |-> "none"]
NoHeap == [nodes |-> <<>>, head |-> Null, tail |-> Null]
NoFrames == [t \in Threads |-> [pc |-> "none"]]

(* ------------------------------ counting ------------------------------ *)

\* The handles of a bag that name block b.
CountOf(B, b) == BagCardinality([w \in {x \in BagToSet(B) : x.ptr = b} |-> B[w]])

RECURSIVE SumOver(_, _)
SumOver(f, S) ==
    IF S = {} THEN 0
    ELSE LET x == CHOOSE y \in S : TRUE IN f[x] + SumOver(f, S \ {x})

\* The Rc a thread has moved into a compare_exchange that has not returned.
HeldRc(t, b) == IF pc[t] = "cas" /\ arg[t].desired.ptr = b THEN 1 ELSE 0

\* Outstanding Rc handles naming block b.
RcCount(b) == SumOver([t \in Threads |-> CountOf(rcs[t], b) + HeldRc(t, b)], Threads)

\* The handles a NewRcIter has not yielded yet.
IterCount(b) == SumOver([t \in Threads |-> IF iter[t].ptr = b THEN iter[t].remain ELSE 0],
                        Threads)

\* The AtomicRc slots naming block b.
SlotCount(b) == IF linkLive /\ link.ptr = b THEN 1 ELSE 0

\* Outstanding Weak handles naming block b.
WeakCount(b) == SumOver([t \in Threads |-> CountOf(weaks[t], b)], Threads)

Owners(b) == RcCount(b) + SlotCount(b) + IterCount(b)

\* The try_zero closures for block b that are queued or running.
PendingCount(b) ==
    zeroing[b] + BagCardinality([e \in {x \in BagToSet(bags) : x.blk = b} |-> bags[e]])

Pending(b) == PendingCount(b) > 0

\* A thread is between the two fetch_adds of increment_strong on block b.
Incrementing(b) == \E t \in Threads : pc[t] = "inc2" /\ arg[t].word.ptr = b

(* ------------------------------- Init --------------------------------- *)

Init ==
    /\ strong = [b \in Blocks |-> 0]
    /\ weak = [b \in Blocks |-> 0]
    /\ alloc = {}
    /\ disposed = [b \in Blocks |-> 0]
    /\ freed = {}
    /\ link = NullWord
    /\ linkLive = TRUE
    /\ rcs = [t \in Threads |-> EmptyBag]
    /\ weaks = [t \in Threads |-> EmptyBag]
    /\ iter = [t \in Threads |-> NoIter]
    /\ snap = [t \in Threads |-> NoSnap]
    /\ pc = [t \in Threads |-> "idle"]
    /\ arg = [t \in Threads |-> NoArg]
    /\ res = [t \in Threads |-> NoRes]
    /\ epoch = 0
    /\ local = [t \in Threads |-> Unpinned]
    /\ bags = EmptyBag
    /\ zeroing = [b \in Blocks |-> 0]
    /\ resurrected = {}
    /\ destruct_epoch = [b \in Blocks |-> 0]
    /\ heap = NoHeap
    /\ frames = NoFrames

(* ----------------------- the strong-count protocol -------------------- *)

\* The counters an operation of the protocol reads and writes, as one value.
Cnt == [strong |-> strong, bags |-> bags, destruct_epoch |-> destruct_epoch,
        disposed |-> disposed, freed |-> freed]

SetCnt(c) ==
    /\ strong' = c.strong
    /\ bags' = c.bags
    /\ destruct_epoch' = c.destruct_epoch
    /\ disposed' = c.disposed
    /\ freed' = c.freed

\* RcInner::dispose followed by delete_object (try_zero's first branch).
DisposeAndDelete(c, b) ==
    [c EXCEPT !.disposed[b] = @ + 1, !.freed = @ \cup {b}]

\* A defer that runs the closure at once even under a guard.
DeferAtOnce(c, b, guarded) == DisposeAndDelete(c, b)

\* A defer that files the closure with the bag of the previous epoch.
DeferStale(c, b, guarded) ==
    [c EXCEPT !.bags = @ (+) SetToBag({[blk |-> b, stamp |-> epoch - 1]})]

\* A defer that loses the closure.
DeferDropped(c, b, guarded) == c

\* A defer that queues the closure even when there is no guard.
DeferQueued(c, b, guarded) ==
    [c EXCEPT !.bags = @ (+) SetToBag({[blk |-> b, stamp |-> epoch]})]

\* CsEBR::defer: with a guard the closure is queued for the current epoch;
\* without one (unprotected) it runs at once, and try_zero then reads the
\* zero that decrement_strong has just written.
Defer(c, b, guarded) ==
    IF guarded
    THEN [c EXCEPT !.bags = @ (+) SetToBag({[blk |-> b, stamp |-> epoch]})]
    ELSE DisposeAndDelete(c, b)

\* A zero test that is off by one: it also fires when one unit is left.
ReachedZeroOffByOne(prior, n) == prior - n <= 1

\* decrement_strong: fetch_sub(n) found the count at n, so it is now zero.
ReachedZero(prior, n) == prior = n

\* A decrement_strong that takes one unit whatever the count it is given.
DecrementStrongByOne(c, b, n, guarded) ==
    LET prior == c.strong[b]
        c1 == [c EXCEPT !.strong[b] = prior - 1]
    IN  IF ReachedZero(prior, 1)
        THEN Defer([c1 EXCEPT !.destruct_epoch[b] = epoch], b, guarded)
        ELSE c1

\* RcInner::decrement_strong: fetch_sub, and on the zero transition the stamp
\* of destruct_epoch and the deferred try_zero.
DecrementStrong(c, b, n, guarded) ==
    LET prior == c.strong[b]
        c1 == [c EXCEPT !.strong[b] = prior - n]
    IN  IF ReachedZero(prior, n)
        THEN Defer([c1 EXCEPT !.destruct_epoch[b] = epoch], b, guarded)
        ELSE c1

\* A release that forgets the count the word owns.
ReleaseNothing(c, w, guarded) == c

\* A release that queues a deferred decrement for a null word.
ReleaseDeferNull(c, w, guarded) ==
    IF IsNull(w)
    THEN [c EXCEPT !.bags = @ (+) SetToBag({[blk |-> w.ptr, stamp |-> epoch]})]
    ELSE DecrementStrong(c, w.ptr, 1, guarded)

\* Dropping the count a word owns: nothing for a null pointer.
Release(c, w, guarded) ==
    IF IsNull(w) THEN c ELSE DecrementStrong(c, w.ptr, 1, guarded)

\* An increment_strong without its second fetch_add.
ResurrectsNever(prior) == FALSE

\* An increment_strong that always adds twice.
ResurrectsAlways(prior) == TRUE

\* increment_strong: the first fetch_add(1) returned 0, so a second follows.
Resurrects(prior) == prior = 0

\* RcInner::increment_strong, the first fetch_add(1); the new handle w is
\* handed over at once unless the second fetch_add is still to come.
IncrementStrong(t, w) ==
    LET b == w.ptr IN
    /\ strong' = [strong EXCEPT ![b] = @ + 1]
    /\ IF Resurrects(strong[b])
       THEN /\ pc' = [pc EXCEPT ![t] = "inc2"]
            /\ arg' = [arg EXCEPT ![t] = [op |-> "inc", word |-> w]]
            /\ resurrected' = resurrected \cup {b}
            /\ UNCHANGED rcs
       ELSE /\ rcs' = [rcs EXCEPT ![t] = @ (+) SetToBag({w})]
            /\ UNCHANGED <<pc, arg, resurrected>>

\* increment_strong, the second fetch_add(1): the permission to decrement again.
IncrementStrongAgain(t) ==
    /\ pc[t] = "inc2"
    /\ strong' = [strong EXCEPT ![arg[t].word.ptr] = @ + 1]
    /\ rcs' = [rcs EXCEPT ![t] = @ (+) SetToBag({arg[t].word})]
    /\ pc' = [pc EXCEPT ![t] = "idle"]
    /\ arg' = [arg EXCEPT ![t] = NoArg]
    /\ UNCHANGED <<heap, frames, weak, alloc, disposed, freed, link, linkLive, weaks, snap, res,
                   epoch, local, bags, zeroing, resurrected, destruct_epoch, iter>>

\* increment_strong run to its end with no step of another thread in between:
\* the fetch_add(1), and the second one when the first returned zero.
IncrementStrongBoth(c, b) ==
    [c EXCEPT !.strong[b] = @ + (IF Resurrects(c.strong[b]) THEN 2 ELSE 1)]

\* Snapshot::counted followed by the drop of the Rc it returned, as one
\* sequence on the counters.
CountedThenDrop(c, b) == DecrementStrong(IncrementStrongBoth(c, b), b, 1, TRUE)

\* A try_zero that disposes without re-reading strong.
StillZeroAlways(count) == TRUE

\* try_zero: the re-read of strong (fetch_add(0)) finds it still zero.
StillZero(count) == count = 0

\* try_zero is eligible: two epoch ticks have passed since it was deferred.
Collectable(e) == e.stamp + 2 <= epoch

\* RcInner::try_zero, run by the collector: the re-read of strong.  A count of
\* zero leads to dispose; any other count is decremented again under a fresh
\* guard (C::new()).
TryZero(e) ==
    /\ e \in BagToSet(bags)
    /\ Collectable(e)
    /\ LET c == [Cnt EXCEPT !.bags = @ (-) SetToBag({e})] IN
       IF StillZero(strong[e.blk])
       THEN /\ zeroing' = [zeroing EXCEPT ![e.blk] = @ + 1]
            /\ SetCnt(c)
       ELSE /\ SetCnt(DecrementStrong(c, e.blk, 1, TRUE))
            /\ UNCHANGED zeroing
    /\ UNCHANGED <<heap, frames, weak, alloc, link, linkLive, rcs, weaks, snap, pc, arg, res,
                   epoch, local, resurrected, iter>>

\* try_zero's first branch: dispose, then delete_object.
TryZeroDispose(b) ==
    /\ zeroing[b] > 0
    /\ zeroing' = [zeroing EXCEPT ![b] = @ - 1]
    /\ SetCnt(DisposeAndDelete(Cnt, b))
    /\ UNCHANGED <<heap, frames, weak, alloc, link, linkLive, rcs, weaks, snap, pc, arg, res,
                   epoch, local, resurrected, iter>>

(* --------------------------- the epoch engine ------------------------- *)

Pinned(t) == local[t] # Unpinned

\* pin(): the thread's local epoch becomes the global epoch.
Pin(t) ==
    /\ pc[t] = "idle"
    /\ ~Pinned(t)
    /\ local' = [local EXCEPT ![t] = epoch]
    /\ UNCHANGED <<heap, frames, strong, weak, alloc, disposed, freed, link, linkLive, rcs, weaks,
                   snap, pc, arg, res, epoch, bags, zeroing, resurrected,
                   destruct_epoch, iter>>

\* The guard goes out of scope, and with it the snapshots of its lifetime.
Unpin(t) ==
    /\ pc[t] = "idle"
    /\ Pinned(t)
    /\ local' = [local EXCEPT ![t] = Unpinned]
    /\ snap' = [snap EXCEPT ![t] = NoSnap]
    /\ UNCHANGED <<heap, frames, strong, weak, alloc, disposed, freed, link, linkLive, rcs, weaks,
                   pc, arg, res, epoch, bags, zeroing, resurrected, destruct_epoch, iter>>

\* An advance that does not look at the pinned participants.
CanAdvanceAlways == TRUE

\* Every pinned participant has reached the global epoch.
CanAdvance == \A t \in Threads : Pinned(t) => local[t] >= epoch

\* Epoch advancement: E becomes E + 1.
Advance ==
    /\ epoch < MaxEpoch
    /\ CanAdvance
    /\ epoch' = epoch + 1
    /\ UNCHANGED <<heap, frames, strong, weak, alloc, disposed, freed, link, linkLive, rcs, weaks,
                   snap, pc, arg, res, local, bags, zeroing, resurrected,
                   destruct_epoch, iter>>

\* CsEBR::clear: a guard is repinned, its local epoch becoming the global
\* epoch and its snapshots ending; without a guard (unprotected) nothing is done.
Clear(t, guarded) ==
    /\ pc[t] = "idle"
    /\ guarded = Pinned(t)
    /\ IF guarded
       THEN /\ local' = [local EXCEPT ![t] = epoch]
            /\ snap' = [snap EXCEPT ![t] = NoSnap]
       ELSE UNCHANGED <<local, snap>>
    /\ UNCHANGED <<heap, frames, strong, weak, alloc, disposed, freed, link, linkLive, rcs, weaks,
                   pc, arg, res, epoch, bags, zeroing, resurrected, destruct_epoch, iter>>

(* ---------------------------------- Rc -------------------------------- *)

Room(t) == BagCardinality(rcs[t]) < MaxRc

\* Rc::new: a fresh block with strong = 1 (and the weak ticket of the strong
\* handles).
RcNew(t) ==
    /\ pc[t] = "idle"
    /\ Room(t)
    /\ \E b \in Blocks \ alloc :
        /\ \A x \in Blocks \ alloc : b <= x
        /\ alloc' = alloc \cup {b}
        /\ strong' = [strong EXCEPT ![b] = 1]
        /\ weak' = [weak EXCEPT ![b] = 1]
        /\ rcs' = [rcs EXCEPT ![t] = @ (+) SetToBag({Word(b, 0, 0)})]
    /\ UNCHANGED <<heap, frames, disposed, freed, link, linkLive, weaks, snap, pc, arg, res,
                   epoch, local, bags, zeroing, resurrected, destruct_epoch, iter>>

\* Rc::new_many::<N>: one block with strong = n, and its n handles in the
\* caller's hands.
RcNewMany(t, n) ==
    /\ pc[t] = "idle"
    /\ BagCardinality(rcs[t]) + n <= MaxRc
    /\ \E b \in Blocks \ alloc :
        /\ \A x \in Blocks \ alloc : b <= x
        /\ alloc' = alloc \cup {b}
        /\ strong' = [strong EXCEPT ![b] = n]
        /\ weak' = [weak EXCEPT ![b] = 1]
        /\ rcs' = [rcs EXCEPT ![t] = @ (+) [w \in {Word(b, 0, 0)} |-> n]]
    /\ UNCHANGED <<heap, frames, disposed, freed, link, linkLive, weaks, snap, pc, arg, res,
                   epoch, local, bags, zeroing, resurrected, destruct_epoch, iter>>

\* Rc is Send: a handle moves from one thread to another, no counter written.
RcSend(t, u, w) ==
    /\ pc[t] = "idle"
    /\ pc[u] = "idle"
    /\ t # u
    /\ w \in BagToSet(rcs[t])
    /\ Room(u)
    /\ rcs' = [rcs EXCEPT ![t] = @ (-) SetToBag({w}), ![u] = @ (+) SetToBag({w})]
    /\ UNCHANGED <<heap, frames, strong, weak, alloc, disposed, freed, link, linkLive, weaks, snap,
                   pc, arg, res, epoch, local, bags, zeroing, resurrected,
                   destruct_epoch, iter>>

\* Rc::new_many_iter: one block with strong = count, and the iterator over
\* its count handles.
RcNewManyIter(t, count) ==
    /\ pc[t] = "idle"
    /\ iter[t] = NoIter
    /\ \E b \in Blocks \ alloc :
        /\ \A x \in Blocks \ alloc : b <= x
        /\ alloc' = alloc \cup {b}
        /\ strong' = [strong EXCEPT ![b] = count]
        /\ weak' = [weak EXCEPT ![b] = 1]
        /\ iter' = [iter EXCEPT ![t] = [ptr |-> b, remain |-> count]]
    /\ UNCHANGED <<heap, frames, disposed, freed, link, linkLive, rcs, weaks, snap, pc, arg, res,
                   epoch, local, bags, zeroing, resurrected, destruct_epoch>>

\* NewRcIter::next: one more handle while remain > 0.
IterNext(t) ==
    /\ pc[t] = "idle"
    /\ Room(t)
    /\ iter[t].remain > 0
    /\ iter' = [iter EXCEPT ![t].remain = @ - 1]
    /\ rcs' = [rcs EXCEPT ![t] = @ (+) SetToBag({Word(iter[t].ptr, 0, 0)})]
    /\ UNCHANGED <<heap, frames, strong, weak, alloc, disposed, freed, link, linkLive, weaks, snap,
                   pc, arg, res, epoch, local, bags, zeroing, resurrected,
                   destruct_epoch>>

\* Drop for NewRcIter and NewRcIter::abort: the remainder is released in one
\* decrement_strong.
IterDrop(t) ==
    /\ pc[t] = "idle"
    /\ iter[t] # NoIter
    /\ iter' = [iter EXCEPT ![t] = NoIter]
    /\ SetCnt(IF iter[t].remain > 0
              THEN DecrementStrong(Cnt, iter[t].ptr, iter[t].remain, TRUE)
              ELSE Cnt)
    /\ UNCHANGED <<heap, frames, weak, alloc, link, linkLive, rcs, weaks, snap, pc, arg, res,
                   epoch, local, zeroing, resurrected>>

\* Clone for Rc.
RcClone(t, w) ==
    /\ pc[t] = "idle"
    /\ Room(t)
    /\ w \in BagToSet(rcs[t])
    /\ IncrementStrong(t, w)
    /\ UNCHANGED <<heap, frames, weak, alloc, disposed, freed, link, linkLive, weaks, snap, res,
                   epoch, local, bags, zeroing, destruct_epoch, iter>>

\* Drop for Rc: decrement_strong without a guard.
RcDrop(t, w) ==
    /\ pc[t] = "idle"
    /\ w \in BagToSet(rcs[t])
    /\ rcs' = [rcs EXCEPT ![t] = @ (-) SetToBag({w})]
    /\ SetCnt(Release(Cnt, w, TRUE))
    /\ UNCHANGED <<heap, frames, weak, alloc, link, linkLive, weaks, snap, pc, arg, res,
                   epoch, local, zeroing, resurrected, iter>>

\* Rc::finalize: the same decrement, deferred on the caller's guard.
RcFinalize(t, w) ==
    /\ pc[t] = "idle"
    /\ Pinned(t)
    /\ w \in BagToSet(rcs[t])
    /\ rcs' = [rcs EXCEPT ![t] = @ (-) SetToBag({w})]
    /\ SetCnt(Release(Cnt, w, TRUE))
    /\ UNCHANGED <<heap, frames, weak, alloc, link, linkLive, weaks, snap, pc, arg, res,
                   epoch, local, zeroing, resurrected, iter>>

\* Rc::finalize with the guard of CsEBR::unprotected: the same decrement, its
\* defer run with no guard.
RcFinalizeUnprotected(t, w) ==
    /\ pc[t] = "idle"
    /\ ~Pinned(t)
    /\ w \in BagToSet(rcs[t])
    /\ rcs' = [rcs EXCEPT ![t] = @ (-) SetToBag({w})]
    /\ SetCnt(Release(Cnt, w, FALSE))
    /\ UNCHANGED <<heap, frames, weak, alloc, link, linkLive, weaks, snap, pc, arg, res,
                   epoch, local, zeroing, resurrected, iter>>

\* Rc::snapshot: a Snapshot of the same word under the caller's guard.
RcSnapshot(t, w) ==
    /\ pc[t] = "idle"
    /\ Pinned(t)
    /\ w \in BagToSet(rcs[t])
    /\ snap' = [snap EXCEPT ![t] = w]
    /\ UNCHANGED <<heap, frames, strong, weak, alloc, disposed, freed, link, linkLive, rcs, weaks,
                   pc, arg, res, epoch, local, bags, zeroing, resurrected,
                   destruct_epoch, iter>>

\* Snapshot::counted: an Rc of the same word, by increment_strong.
Counted(t) ==
    /\ pc[t] = "idle"
    /\ Pinned(t)
    /\ Room(t)
    /\ snap[t] # NoSnap
    /\ ~IsNull(snap[t])
    /\ IncrementStrong(t, snap[t])
    /\ UNCHANGED <<heap, frames, weak, alloc, disposed, freed, link, linkLive, weaks, snap, res,
                   epoch, local, bags, zeroing, destruct_epoch, iter>>

(* ------------------------------- AtomicRc ----------------------------- *)

\* A stamp that clears the user tag of the word it stamps.
WithTimestampDropTag(w) == IF IsNull(w) THEN w ELSE WithHighTag(WithTag(w, 0), epoch)

\* A stamp without the null check: the null word is stamped too.
WithTimestampAlways(w) == WithHighTag(w, epoch)

\* Tagged::with_timestamp: a non-null word is stamped with the global epoch.
WithTimestamp(w) == IF IsNull(w) THEN w ELSE WithHighTag(w, epoch)

\* The Rc values a thread can pass: one of its handles, or Rc::null().
Passable(t) == BagToSet(rcs[t]) \cup {NullWord}

\* The caller gives up the handle of a word: none for a null pointer.
Take(B, w) == IF IsNull(w) THEN B ELSE B (-) SetToBag({w})
\* A return that loses the handle.
GiveNothing(B, w) == B

\* The caller receives the handle of a word: none for a null pointer.
Give(B, w) == IF IsNull(w) THEN B ELSE B (+) SetToBag({w})

\* AtomicRc::load.
Load(t) ==
    /\ pc[t] = "idle"
    /\ Pinned(t)
    /\ linkLive
    /\ snap' = [snap EXCEPT ![t] = link]
    /\ UNCHANGED <<heap, frames, strong, weak, alloc, disposed, freed, link, linkLive, rcs, weaks,
                   pc, arg, res, epoch, local, bags, zeroing, resurrected,
                   destruct_epoch, iter>>

\* AtomicRc::store: swap the stamped word in, forget the Rc, and decrement
\* the previous referent on the caller's guard.
Store(t, w) ==
    /\ pc[t] = "idle"
    /\ Pinned(t)
    /\ linkLive
    /\ w \in Passable(t)
    /\ link' = WithTimestamp(w)
    /\ rcs' = [rcs EXCEPT ![t] = Take(@, w)]
    /\ SetCnt(Release(Cnt, link, TRUE))
    /\ UNCHANGED <<heap, frames, weak, alloc, linkLive, weaks, snap, pc, arg, res, epoch, local,
                   zeroing, resurrected, iter>>

\* AtomicRc::swap: swap the stamped word in and return the previous one as an Rc.
Swap(t, w) ==
    /\ pc[t] = "idle"
    /\ linkLive
    /\ w \in Passable(t)
    /\ BagCardinality(Take(rcs[t], w)) < MaxRc
    /\ link' = WithTimestamp(w)
    /\ rcs' = [rcs EXCEPT ![t] = Give(Take(@, w), link)]
    /\ UNCHANGED <<heap, frames, strong, weak, alloc, disposed, freed, linkLive, weaks, snap, pc,
                   arg, res, epoch, local, bags, zeroing, resurrected,
                   destruct_epoch, iter>>

\* Drop for AtomicRc: decrement_strong of the referent without a guard.  The
\* drop needs exclusive access: no thread is inside an operation on the slot.
AtomicRcDrop ==
    /\ linkLive
    /\ \A t \in Threads : pc[t] # "cas"
    /\ linkLive' = FALSE
    /\ link' = NullWord
    /\ SetCnt(Release(Cnt, link, TRUE))
    /\ UNCHANGED <<heap, frames, weak, alloc, rcs, weaks, snap, pc, arg, res, epoch, local,
                   zeroing, resurrected, iter>>

\* AtomicRc::new: a fresh block with strong = 1, owned by the slot; the word
\* is the one Rc::new made, put into the slot as it is.
AtomicRcNew(t) ==
    /\ pc[t] = "idle"
    /\ ~linkLive
    /\ \E b \in Blocks \ alloc :
        /\ \A x \in Blocks \ alloc : b <= x
        /\ alloc' = alloc \cup {b}
        /\ strong' = [strong EXCEPT ![b] = 1]
        /\ weak' = [weak EXCEPT ![b] = 1]
        /\ link' = Word(b, 0, 0)
    /\ linkLive' = TRUE
    /\ UNCHANGED <<heap, frames, disposed, freed, rcs, weaks, snap, pc, arg, res, epoch, local,
                   bags, zeroing, resurrected, destruct_epoch, iter>>

\* From<Rc> for AtomicRc: the slot is made of the word of the Rc
\* (value.into_raw()), which it now owns.
AtomicRcFrom(t, w) ==
    /\ pc[t] = "idle"
    /\ ~linkLive
    /\ w \in Passable(t)
    /\ link' = w
    /\ linkLive' = TRUE
    /\ rcs' = [rcs EXCEPT ![t] = Take(@, w)]
    /\ UNCHANGED <<heap, frames, strong, weak, alloc, disposed, freed, weaks, snap, pc, arg, res,
                   epoch, local, bags, zeroing, resurrected, destruct_epoch, iter>>

\* take() of an AtomicRc (OwnRc): the word is moved out as an Rc and the slot
\* is left null.  It needs exclusive access to the slot.
AtomicRcTake(t) ==
    /\ pc[t] = "idle"
    /\ linkLive
    /\ \A u \in Threads : pc[u] # "cas"
    /\ BagCardinality(Give(rcs[t], link)) <= MaxRc
    /\ link' = NullWord
    /\ rcs' = [rcs EXCEPT ![t] = Give(@, link)]
    /\ UNCHANGED <<heap, frames, strong, weak, alloc, disposed, freed, linkLive, weaks, snap, pc,
                   arg, res, epoch, local, bags, zeroing, resurrected,
                   destruct_epoch, iter>>

\* The null words a handle can hold: Rc::null(), and Rc::null().with_tag(k).
NullWords == {Word(Null, k, 0) : k \in 0..MaxTag}

\* The operations on a handle that look for the counters of its referent by
\* `if let Some(cnt) = ptr.as_raw().as_ref()`.
HandleOps == {"clone", "drop", "finalize", "counted", "downgrade"}

\* Clone, Drop and finalize of an Rc, counted() of a Snapshot and downgrade of
\* an Rc whose word is null: as_raw().as_ref() is None.  Drop and finalize
\* release the count the word owns; clone, counted and downgrade skip the
\* increment and return a handle of the same word.  The call's result stays
\* in res until the caller takes it.
NullHandleCall(t, op, w) ==
    /\ pc[t] = "idle"
    /\ op \in HandleOps
    /\ w \in NullWords
    /\ op = "finalize" => Pinned(t)
    /\ op = "counted" => (Pinned(t) /\ snap[t] = w)
    /\ IF op \in {"drop", "finalize"}
       THEN SetCnt(Release(Cnt, w, op = "finalize"))
       ELSE UNCHANGED <<strong, bags, destruct_epoch, disposed, freed>>
    /\ rcs' = [rcs EXCEPT ![t] = IF op \in {"clone", "counted"} THEN Give(@, w) ELSE @]
    /\ weaks' = [weaks EXCEPT ![t] = IF op = "downgrade" THEN Give(@, w) ELSE @]
    /\ res' = [res EXCEPT ![t] = [kind |-> op, word |-> w]]
    /\ pc' = [pc EXCEPT ![t] = "ret"]
    /\ UNCHANGED <<heap, frames, weak, alloc, link, linkLive, snap, arg, epoch, local, zeroing,
                   resurrected, iter>>

\* AtomicRc::compare_exchange, up to the loop: the expected word is the
\* Snapshot's, the desired word is the Rc's, stamped with the epoch read here.
CompareExchangeBegin(t, w) ==
    /\ pc[t] = "idle"
    /\ Pinned(t)
    /\ linkLive
    /\ snap[t] # NoSnap
    /\ w \in Passable(t)
    /\ BagCardinality(Take(rcs[t], w)) < MaxRc
    /\ rcs' = [rcs EXCEPT ![t] = Take(@, w)]
    /\ pc' = [pc EXCEPT ![t] = "cas"]
    /\ arg' = [arg EXCEPT ![t] = [op |-> "cas", expected |-> snap[t],
                                  expected_raw |-> snap[t],
                                  desired_raw |-> WithTimestamp(w),
                                  desired |-> w, retried |-> FALSE]]
    /\ UNCHANGED <<heap, frames, strong, weak, alloc, disposed, freed, link, linkLive, weaks, snap,
                   res, epoch, local, bags, zeroing, resurrected, destruct_epoch, iter>>

\* A compare_exchange that reports every failed exchange to its caller.
RetryNever(current_raw, expected_raw) == FALSE

\* A compare_exchange that goes around its loop after every failed exchange.
RetryAlways(current_raw, expected_raw) == TRUE

\* The Err(current_raw) branch retries when the observed word differs from
\* the expected one in its epoch bits alone.
RetryOn(current_raw, expected_raw) == PtrEq(current_raw, expected_raw)

\* A loop that goes around with the expected word it had.
NextExpectedStale(current_raw, expected_raw) == expected_raw

\* expected_raw = current_raw: the next turn expects the word just observed.
NextExpected(current_raw, expected_raw) == current_raw

\* One turn of the loop: link.compare_exchange(expected_raw, desired_raw) and
\* the match on its result.
CompareExchangeStep(t) ==
    /\ pc[t] = "cas"
    /\ IF link = arg[t].expected_raw
       THEN \* Ok: forget(desired), return Rc::from_raw(expected_raw)
            /\ link' = arg[t].desired_raw
            /\ rcs' = [rcs EXCEPT ![t] = Give(@, arg[t].expected_raw)]
            /\ res' = [res EXCEPT ![t] = [kind |-> "ok", expected |-> arg[t].expected,
                                          current |-> link, desired |-> arg[t].desired,
                                          retried |-> arg[t].retried]]
            /\ pc' = [pc EXCEPT ![t] = "ret"]
            /\ arg' = [arg EXCEPT ![t] = NoArg]
            /\ UNCHANGED snap
       ELSE IF RetryOn(link, arg[t].expected_raw)
       THEN \* expected_raw = current_raw, and around the loop again
            /\ arg' = [arg EXCEPT ![t].expected_raw = NextExpected(link, @),
                                  ![t].retried = TRUE]
            /\ UNCHANGED <<link, rcs, res, pc, snap>>
       ELSE \* Err { desired, current: Snapshot::from_raw(current_raw) }
            /\ rcs' = [rcs EXCEPT ![t] = Give(@, arg[t].desired)]
            /\ snap' = [snap EXCEPT ![t] = link]
            /\ res' = [res EXCEPT ![t] = [kind |-> "err", expected |-> arg[t].expected,
                                          current |-> link, desired |-> arg[t].desired,
                                          retried |-> arg[t].retried]]
            /\ pc' = [pc EXCEPT ![t] = "ret"]
            /\ arg' = [arg EXCEPT ![t] = NoArg]
            /\ UNCHANGED link
    /\ UNCHANGED <<heap, frames, strong, weak, alloc, disposed, freed, linkLive, weaks, epoch,
                   local, bags, zeroing, resurrected, destruct_epoch, iter>>

\* AtomicRc::compare_exchange_weak, up to the loop: the same locals as
\* compare_exchange.
CompareExchangeWeakBegin(t, w) ==
    /\ pc[t] = "idle"
    /\ Pinned(t)
    /\ linkLive
    /\ snap[t] # NoSnap
    /\ w \in Passable(t)
    /\ BagCardinality(Take(rcs[t], w)) < MaxRc
    /\ rcs' = [rcs EXCEPT ![t] = Take(@, w)]
    /\ pc' = [pc EXCEPT ![t] = "cas"]
    /\ arg' = [arg EXCEPT ![t] = [op |-> "cas_weak", expected |-> snap[t],
                                  expected_raw |-> snap[t],
                                  desired_raw |-> WithTimestamp(w),
                                  desired |-> w, retried |-> FALSE]]
    /\ UNCHANGED <<heap, frames, strong, weak, alloc, disposed, freed, link, linkLive, weaks, snap,
                   res, epoch, local, bags, zeroing, resurrected, destruct_epoch, iter>>

\* link.compare_exchange_weak fails although the slot holds expected_raw: the
\* Err branch sees current_raw ptr_eq expected_raw and goes around the loop.
CompareExchangeWeakSpurious(t) ==
    /\ pc[t] = "cas"
    /\ arg[t].op = "cas_weak"
    /\ link = arg[t].expected_raw
    /\ RetryOn(link, arg[t].expected_raw)
    /\ arg' = [arg EXCEPT ![t].expected_raw = link, ![t].retried = TRUE]
    /\ UNCHANGED <<heap, frames, strong, weak, alloc, disposed, freed, link, linkLive, rcs, weaks,
                   snap, pc, res, epoch, local, bags, zeroing, resurrected,
                   destruct_epoch, iter>>

\* AtomicRc::compare_exchange_tag, up to the loop: the expected word is the
\* Snapshot's, the desired word is the expected one with the new tag, stamped
\* with the epoch read here.
CompareExchangeTagBegin(t, expected, desired_tag) ==
    /\ pc[t] = "idle"
    /\ Pinned(t)
    /\ linkLive
    /\ arg' = [arg EXCEPT ![t] = [op |-> "cas_tag", expected |-> expected,
                                  expected_raw |-> expected,
                                  desired_raw |->
                                      WithTimestamp(WithTag(expected, desired_tag)),
                                  desired_tag |-> desired_tag,
                                  retried |-> FALSE]]
    /\ pc' = [pc EXCEPT ![t] = "castag"]
    /\ UNCHANGED <<heap, frames, strong, weak, alloc, disposed, freed, link, linkLive, rcs, weaks,
                   snap, res, epoch, local, bags, zeroing, resurrected,
                   destruct_epoch, iter>>

\* One turn of compare_exchange_tag's loop.
CompareExchangeTagStep(t) ==
    /\ pc[t] = "castag"
    /\ IF link = arg[t].expected_raw
       THEN \* Ok(current_raw): the Snapshot of the word that was replaced
            /\ link' = arg[t].desired_raw
            /\ res' = [res EXCEPT ![t] = [kind |-> "tag_ok", expected |-> arg[t].expected,
                                          current |-> link,
                                          desired |-> arg[t].desired_raw,
                                          desired_tag |-> arg[t].desired_tag,
                                          retried |-> arg[t].retried]]
            /\ pc' = [pc EXCEPT ![t] = "ret"]
            /\ arg' = [arg EXCEPT ![t] = NoArg]
       ELSE IF RetryOn(link, arg[t].expected_raw)
       THEN /\ arg' = [arg EXCEPT ![t].expected_raw = link, ![t].retried = TRUE]
            /\ UNCHANGED <<link, res, pc>>
       ELSE \* Err { desired: Snapshot of desired_raw, current: Snapshot of current_raw }
            /\ res' = [res EXCEPT ![t] = [kind |-> "tag_err", expected |-> arg[t].expected,
                                          current |-> link,
                                          desired |-> arg[t].desired_raw,
                                          desired_tag |-> arg[t].desired_tag,
                                          retried |-> arg[t].retried]]
            /\ pc' = [pc EXCEPT ![t] = "ret"]
            /\ arg' = [arg EXCEPT ![t] = NoArg]
            /\ UNCHANGED link
    /\ UNCHANGED <<heap, frames, strong, weak, alloc, disposed, freed, linkLive, rcs, weaks, snap,
                   epoch, local, bags, zeroing, resurrected, destruct_epoch, iter>>

\* The caller takes the result of its call; the model keeps it in res from
\* the call's last step until then.
Return(t) ==
    /\ pc[t] = "ret"
    /\ pc' = [pc EXCEPT ![t] = "idle"]
    /\ res' = [res EXCEPT ![t] = NoRes]
    /\ UNCHANGED <<heap, frames, strong, weak, alloc, disposed, freed, link, linkLive, rcs, weaks,
                   snap, arg, epoch, local, bags, zeroing, resurrected,
                   destruct_epoch, iter>>

\* Rc::with_tag: the same handle with another user tag.
RcWithTag(t, w, tag) ==
    /\ pc[t] = "idle"
    /\ w \in BagToSet(rcs[t])
    /\ WithTag(w, tag) # w
    /\ rcs' = [rcs EXCEPT ![t] = (@ (-) SetToBag({w})) (+) SetToBag({WithTag(w, tag)})]
    /\ UNCHANGED <<heap, frames, strong, weak, alloc, disposed, freed, link, linkLive, weaks, snap,
                   pc, arg, res, epoch, local, bags, zeroing, resurrected,
                   destruct_epoch, iter>>

\* Tagged::with_tag on the machine word, as Rc::with_tag and
\* Snapshot::with_tag call it: the call's pointer and tag are in arg, its
\* result goes to res.
TaggedWithTag(t) ==
    /\ pc[t] = "idle"
    /\ arg[t].op = "with_tag"
    /\ res' = [res EXCEPT ![t] = [kind |-> "with_tag", p |-> arg[t].p, tag |-> arg[t].tag,
                                  out |-> BitsWithTag(arg[t].p, arg[t].tag)]]
    /\ arg' = [arg EXCEPT ![t] = NoArg]
    /\ UNCHANGED <<heap, frames, strong, weak, alloc, disposed, freed, link, linkLive, rcs, weaks,
                   snap, pc, epoch, local, bags, zeroing, resurrected,
                   destruct_epoch, iter>>

\* Rc::ptr_eq and Snapshot::ptr_eq on three machine words: every comparison
\* among them, and of the first with itself under another epoch stamp.
PtrEqCall(t) ==
    /\ pc[t] = "call"
    /\ arg[t].op = "ptr_eq"
    /\ LET a == arg[t].a
           b == arg[t].b
           c == arg[t].c
       IN  res' = [res EXCEPT ![t] =
                    [kind |-> "ptr_eq", a |-> a, b |-> b, c |-> c,
                     aa |-> BitsPtrEq(a, a), ab |-> BitsPtrEq(a, b),
                     ba |-> BitsPtrEq(b, a), bc |-> BitsPtrEq(b, c),
                     ac |-> BitsPtrEq(a, c),
                     stamped |-> BitsPtrEq(a, BitsWithHighTag(a, HighTag(b)))]]
    /\ arg' = [arg EXCEPT ![t] = NoArg]
    /\ UNCHANGED <<heap, frames, strong, weak, alloc, disposed, freed, link, linkLive, rcs, weaks,
                   snap, pc, epoch, local, bags, zeroing, resurrected,
                   destruct_epoch, iter>>

(* --------------------------------- Weak ------------------------------- *)

WeakRoom(t) == BagCardinality(weaks[t]) < MaxWeak

\* increment_weak(n) (spec 4.2): fetch_add(n) on weak.
IncrementWeak(b, n) == weak' = [weak EXCEPT ![b] = @ + n]

\* Rc::downgrade: increment_weak(1) and a Weak of the same word.
Downgrade(t, w) ==
    /\ pc[t] = "idle"
    /\ WeakRoom(t)
    /\ w \in BagToSet(rcs[t])
    /\ IncrementWeak(w.ptr, 1)
    /\ weaks' = [weaks EXCEPT ![t] = Give(@, w)]
    /\ UNCHANGED <<heap, frames, strong, alloc, disposed, freed, link, linkLive, rcs, snap, pc, arg,
                   res, epoch, local, bags, zeroing, resurrected, destruct_epoch, iter>>

\* The array Rc::weak_many returns: array::from_fn(|_| Weak::null()).
WeakManyHandles(w, n) == [i \in 1..n |-> NullWord]

RECURSIVE GiveAll(_, _)
GiveAll(B, hs) == IF hs = <<>> THEN B ELSE GiveAll(Give(B, Head(hs)), Tail(hs))

\* Rc::weak_many::<N>: increment_weak(N) and the N handles.
WeakMany(t, w, n) ==
    /\ pc[t] = "idle"
    /\ BagCardinality(weaks[t]) + n <= MaxWeak
    /\ weak[w.ptr] + n <= MaxWeakCount
    /\ w \in BagToSet(rcs[t])
    /\ IncrementWeak(w.ptr, n)
    /\ weaks' = [weaks EXCEPT ![t] = GiveAll(@, WeakManyHandles(w, n))]
    /\ res' = [res EXCEPT ![t] = [kind |-> "weak_many", rc |-> w, n |-> n,
                                  before |-> weak[w.ptr],
                                  handles |-> WeakManyHandles(w, n)]]
    /\ pc' = [pc EXCEPT ![t] = "ret"]
    /\ UNCHANGED <<heap, frames, strong, alloc, disposed, freed, link, linkLive, rcs, snap, arg,
                   epoch, local, bags, zeroing, resurrected, destruct_epoch, iter>>

\* Clone for Weak (spec 3): one more unit of weak.
WeakClone(t, w) ==
    /\ pc[t] = "idle"
    /\ WeakRoom(t)
    /\ w \in BagToSet(weaks[t])
    /\ IncrementWeak(w.ptr, 1)
    /\ weaks' = [weaks EXCEPT ![t] = Give(@, w)]
    /\ UNCHANGED <<heap, frames, strong, alloc, disposed, freed, link, linkLive, rcs, snap, pc, arg,
                   res, epoch, local, bags, zeroing, resurrected, destruct_epoch, iter>>

\* Drop for Weak (spec 3, 4.2): decrement_weak(1); the last weak frees the block.
WeakDrop(t, w) ==
    /\ pc[t] = "idle"
    /\ w \in BagToSet(weaks[t])
    /\ weaks' = [weaks EXCEPT ![t] = Take(@, w)]
    /\ weak' = [weak EXCEPT ![w.ptr] = @ - 1]
    /\ freed' = IF weak[w.ptr] = 1 THEN freed \cup {w.ptr} ELSE freed
    /\ UNCHANGED <<heap, frames, strong, alloc, disposed, link, linkLive, rcs, snap, pc, arg, res,
                   epoch, local, bags, zeroing, resurrected, destruct_epoch, iter>>

\* An upgrade that adds its unit whatever count it observed.
UpgradeableAlways(count) == TRUE

\* upgrade (spec 4.6): the increment is attempted only on a count above zero.
Upgradeable(count) == count > 0

\* Weak::upgrade (spec 3, 4.6), up to its loop: the first read of strong.
UpgradeBegin(t, w) ==
    /\ pc[t] = "idle"
    /\ Pinned(t)
    /\ Room(t)
    /\ w \in BagToSet(weaks[t])
    /\ ~IsNull(w)
    /\ pc' = [pc EXCEPT ![t] = "upg"]
    /\ arg' = [arg EXCEPT ![t] = [op |-> "upgrade", word |-> w, count |-> strong[w.ptr],
                                  retried |-> FALSE]]
    /\ UNCHANGED <<heap, frames, strong, weak, alloc, disposed, freed, link, linkLive, rcs, weaks,
                   snap, res, epoch, local, bags, zeroing, resurrected,
                   destruct_epoch, iter>>

\* One turn of upgrade's loop: None on an observed count of zero, otherwise
\* the compare-and-swap of strong from the observed count to one more, and
\* around the loop with the count it found when that fails.
UpgradeStep(t) ==
    /\ pc[t] = "upg"
    /\ LET w == arg[t].word
           b == arg[t].word.ptr
       IN  IF ~Upgradeable(arg[t].count)
           THEN /\ res' = [res EXCEPT ![t] = [kind |-> "upgrade_none", word |-> w,
                                              count |-> arg[t].count,
                                              retried |-> arg[t].retried]]
                /\ pc' = [pc EXCEPT ![t] = "ret"]
                /\ arg' = [arg EXCEPT ![t] = NoArg]
                /\ UNCHANGED <<strong, rcs>>
           ELSE IF strong[b] = arg[t].count
           THEN /\ strong' = [strong EXCEPT ![b] = @ + 1]
                /\ rcs' = [rcs EXCEPT ![t] = Give(@, w)]
                /\ res' = [res EXCEPT ![t] = [kind |-> "upgrade_some", word |-> w,
                                              count |-> arg[t].count,
                                              retried |-> arg[t].retried]]
                /\ pc' = [pc EXCEPT ![t] = "ret"]
                /\ arg' = [arg EXCEPT ![t] = NoArg]
           ELSE /\ arg' = [arg EXCEPT ![t].count = strong[b], ![t].retried = TRUE]
                /\ UNCHANGED <<strong, rcs, res, pc>>
    /\ UNCHANGED <<heap, frames, weak, alloc, disposed, freed, link, linkLive, weaks, snap, epoch,
                   local, bags, zeroing, resurrected, destruct_epoch, iter>>

(* ------------------------------ behaviours ---------------------------- *)

\* The counted object's life: handles made, cloned, dropped and moved through
\* the slot, snapshots taken and counted, the epoch engine collecting.
Core ==
    \/ \E t \in Threads : Pin(t)
    \/ \E t \in Threads : Unpin(t)
    \/ Advance
    \/ \E e \in BagToSet(bags) : TryZero(e)
    \/ \E b \in Blocks : TryZeroDispose(b)
    \/ \E t \in Threads : RcNew(t)
    \/ \E t \in Threads : \E w \in BagToSet(rcs[t]) : RcClone(t, w)
    \/ \E t \in Threads : IncrementStrongAgain(t)
    \/ \E t \in Threads : \E w \in BagToSet(rcs[t]) : RcDrop(t, w)
    \/ \E t \in Threads : \E w \in BagToSet(rcs[t]) : RcFinalize(t, w)
    \/ \E t \in Threads : \E w \in BagToSet(rcs[t]) : RcSnapshot(t, w)
    \/ \E t \in Threads : Counted(t)
    \/ \E t \in Threads : Load(t)
    \/ \E t \in Threads : \E w \in Passable(t) : Store(t, w)
    \/ \E t \in Threads : \E w \in Passable(t) : Swap(t, w)

Next ==
    \/ Core
    \/ AtomicRcDrop

Spec == Init /\ [][Next]_vars

\* The same life with the handles of a block coming out of a NewRcIter.
NextIter ==
    \/ Core
    \/ \E t \in Threads : \E n \in 1..MaxRc : RcNewManyIter(t, n)
    \/ \E t \in Threads : IterNext(t)
    \/ \E t \in Threads : IterDrop(t)

SpecIter == Init /\ [][NextIter]_vars

\* The handles of new_many and new_many_iter: made in one allocation, moved
\* between the threads and dropped in any order, while the threads pin and
\* unpin and the epoch engine collects.
NextMany ==
    \/ \E t \in Threads : Pin(t)
    \/ \E t \in Threads : Unpin(t)
    \/ Advance
    \/ \E e \in BagToSet(bags) : TryZero(e)
    \/ \E b \in Blocks : TryZeroDispose(b)
    \/ \E t \in Threads : \E n \in 1..MaxRc : RcNewMany(t, n)
    \/ \E t \in Threads : \E n \in 1..MaxRc : RcNewManyIter(t, n)
    \/ \E t \in Threads : IterNext(t)
    \/ \E t \in Threads : \E u \in Threads : \E w \in BagToSet(rcs[t]) : RcSend(t, u, w)
    \/ \E t \in Threads : \E w \in BagToSet(rcs[t]) : RcDrop(t, w)

SpecMany == Init /\ [][NextMany]_vars

\* The life of a NewRcIter: every block comes from new_many_iter, its handles
\* are yielded, cloned, moved and dropped, and the iterator is aborted or
\* dropped at any point.
NextAbort ==
    \/ \E t \in Threads : Pin(t)
    \/ \E t \in Threads : Unpin(t)
    \/ Advance
    \/ \E e \in BagToSet(bags) : TryZero(e)
    \/ \E b \in Blocks : TryZeroDispose(b)
    \/ \E t \in Threads : \E n \in 1..MaxRc : RcNewManyIter(t, n)
    \/ \E t \in Threads : IterNext(t)
    \/ \E t \in Threads : IterDrop(t)
    \/ \E t \in Threads : \E w \in BagToSet(rcs[t]) : RcClone(t, w)
    \/ \E t \in Threads : \E u \in Threads : \E w \in BagToSet(rcs[t]) : RcSend(t, u, w)
    \/ \E t \in Threads : \E w \in BagToSet(rcs[t]) : RcDrop(t, w)

SpecAbort == Init /\ [][NextAbort]_vars

\* Tag arithmetic: the first thread is about to call with_tag on any machine
\* word with any tag of up to one bit more than the low tag holds.
InitBits ==
    /\ Init!1 /\ Init!2 /\ Init!3 /\ Init!4 /\ Init!5 /\ Init!6 /\ Init!7 /\ Init!8
    /\ Init!9 /\ Init!10 /\ Init!11 /\ Init!12
    /\ \E p \in Bits : \E tag \in 0..((2 * (LowBits + 1)) - 1) :
            arg = [t \in Threads |-> IF t = 1 THEN [op |-> "with_tag", p |-> p, tag |-> tag]
                                              ELSE NoArg]
    /\ Init!14 /\ Init!15 /\ Init!16 /\ Init!17 /\ Init!18 /\ Init!19 /\ Init!20
    /\ Init!21 /\ Init!22

NextBits == \E t \in Threads : TaggedWithTag(t)

SpecBits == InitBits /\ [][NextBits]_vars

\* The slot under compare_exchange: AtomicRc::new(obj) has made the slot and
\* its object, every thread holds one clone of the Rc and has pinned in the
\* epoch before the bound; the threads load, retag, store and compare while
\* the global epoch advances past them.
InitCas ==
    /\ strong = [b \in Blocks |-> IF b = 1 THEN 1 + NThreads ELSE 0]
    /\ weak = [b \in Blocks |-> IF b = 1 THEN 1 ELSE 0]
    /\ alloc = {1}
    /\ disposed = [b \in Blocks |-> 0]
    /\ freed = {}
    /\ link = Word(1, 0, 0)
    /\ linkLive = TRUE
    /\ rcs = [t \in Threads |-> SetToBag({Word(1, 0, 0)})]
    /\ weaks = [t \in Threads |-> EmptyBag]
    /\ iter = [t \in Threads |-> NoIter]
    /\ snap = [t \in Threads |-> NoSnap]
    /\ pc = [t \in Threads |-> "idle"]
    /\ arg = [t \in Threads |-> NoArg]
    /\ res = [t \in Threads |-> NoRes]
    /\ epoch = MaxEpoch - 1
    /\ local = [t \in Threads |-> MaxEpoch - 1]
    /\ bags = EmptyBag
    /\ zeroing = [b \in Blocks |-> 0]
    /\ resurrected = {}
    /\ destruct_epoch = [b \in Blocks |-> 0]
    /\ heap = NoHeap
    /\ frames = NoFrames

NextCas ==
    \/ Advance
    \/ \E t \in Threads : \E w \in BagToSet(rcs[t]) : \E tag \in 0..MaxTag :
            RcWithTag(t, w, tag)
    \/ \E t \in Threads : Load(t)
    \/ \E t \in Threads : \E w \in Passable(t) : Store(t, w)
    \/ \E t \in Threads : \E w \in Passable(t) : CompareExchangeBegin(t, w)
    \/ \E t \in Threads : CompareExchangeStep(t)
    \/ \E t \in Threads : Return(t)

SpecCas == InitCas /\ [][NextCas]_vars

\* The first thread is inside a comparison of three machine words by ptr_eq.
InitPtrEq ==
    /\ Init!1 /\ Init!2 /\ Init!3 /\ Init!4 /\ Init!5 /\ Init!6 /\ Init!7 /\ Init!8
    /\ Init!9 /\ Init!10 /\ Init!11
    /\ pc = [t \in Threads |-> "call"]
    /\ \E a \in Bits : \E b \in Bits : \E c \in Bits :
            arg = [t \in Threads |-> IF t = 1 THEN [op |-> "ptr_eq", a |-> a, b |-> b, c |-> c]
                                              ELSE NoArg]
    /\ Init!14
    /\ epoch = MaxEpoch
    /\ Init!16 /\ Init!17 /\ Init!18 /\ Init!19 /\ Init!20
    /\ Init!21 /\ Init!22

\* Pointers through the slot: from the start of SpecCas the threads retag
\* their handles, install them by store, swap and compare_exchange and read
\* the slot by load, while the epoch advances; beside it, ptr_eq on every
\* three machine words.
NextRound ==
    \/ Advance
    \/ \E t \in Threads : \E w \in BagToSet(rcs[t]) : \E tag \in 0..MaxTag :
            RcWithTag(t, w, tag)
    \/ \E t \in Threads : Load(t)
    \/ \E t \in Threads : \E w \in Passable(t) : Store(t, w)
    \/ \E t \in Threads : \E w \in Passable(t) : Swap(t, w)
    \/ \E t \in Threads : \E w \in Passable(t) : CompareExchangeBegin(t, w)
    \/ \E t \in Threads : CompareExchangeStep(t)
    \/ \E t \in Threads : Return(t)
    \/ \E t \in Threads : PtrEqCall(t)

SpecRound == (InitCas \/ InitPtrEq) /\ [][NextRound]_vars

\* compare_exchange_weak from the same start as SpecCas.  Its loop is that of
\* compare_exchange with one more way to fail, so every run of
\* compare_exchange is a run of it in which no exchange fails spuriously.
NextCasWeak ==
    \/ Advance
    \/ \E t \in Threads : \E w \in BagToSet(rcs[t]) : \E tag \in 0..MaxTag :
            RcWithTag(t, w, tag)
    \/ \E t \in Threads : Load(t)
    \/ \E t \in Threads : \E w \in Passable(t) : Store(t, w)
    \/ \E t \in Threads : \E w \in Passable(t) : CompareExchangeWeakBegin(t, w)
    \/ \E t \in Threads : CompareExchangeWeakSpurious(t)
    \/ \E t \in Threads : CompareExchangeStep(t)
    \/ \E t \in Threads : Return(t)

SpecCasWeak == InitCas /\ [][NextCasWeak]_vars

\* The tag race: the slot was stored in the epoch before the bound, every
\* thread holds a clone of its Rc and is pinned.  Each thread takes a Snapshot
\* (from the slot or from its Rc) and calls compare_exchange_tag once, from
\* tag 0 to the tag that is its own number; the results stay in res.
InitTag ==
    /\ strong = [b \in Blocks |-> IF b = 1 THEN 1 + NThreads ELSE 0]
    /\ weak = [b \in Blocks |-> IF b = 1 THEN 1 ELSE 0]
    /\ alloc = {1}
    /\ disposed = [b \in Blocks |-> 0]
    /\ freed = {}
    /\ link = WithHighTag(Word(1, 0, 0), MaxEpoch - 1)
    /\ linkLive = TRUE
    /\ rcs = [t \in Threads |-> SetToBag({Word(1, 0, 0)})]
    /\ weaks = [t \in Threads |-> EmptyBag]
    /\ iter = [t \in Threads |-> NoIter]
    /\ snap = [t \in Threads |-> NoSnap]
    /\ pc = [t \in Threads |-> "idle"]
    /\ arg = [t \in Threads |-> NoArg]
    /\ res = [t \in Threads |-> NoRes]
    /\ epoch = MaxEpoch - 1
    /\ local = [t \in Threads |-> MaxEpoch - 1]
    /\ bags = EmptyBag
    /\ zeroing = [b \in Blocks |-> 0]
    /\ resurrected = {}
    /\ destruct_epoch = [b \in Blocks |-> 0]
    /\ heap = NoHeap
    /\ frames = NoFrames

NextTag ==
    \/ Advance
    \/ \E t \in Threads : Load(t)
    \/ \E t \in Threads : \E w \in BagToSet(rcs[t]) : RcSnapshot(t, w)
    \/ \E t \in Threads :
            /\ snap[t] # NoSnap
            /\ CompareExchangeTagBegin(t, WithTag(snap[t], 0), t)
    \/ \E t \in Threads : CompareExchangeTagStep(t)

SpecTag == InitTag /\ [][NextTag]_vars

\* compare_exchange_tag beside load and store, with any expected tag and any
\* desired tag, from the same start as SpecCas.
NextTagAny ==
    \/ Advance
    \/ \E t \in Threads : Load(t)
    \/ \E t \in Threads : \E w \in Passable(t) : Store(t, w)
    \/ \E t \in Threads : \E k \in 0..MaxTag : \E tag \in 0..MaxTag :
            /\ snap[t] # NoSnap
            /\ CompareExchangeTagBegin(t, WithTag(snap[t], k), tag)
    \/ \E t \in Threads : CompareExchangeTagStep(t)
    \/ \E t \in Threads : Return(t)

SpecTagAny == InitCas /\ [][NextTagAny]_vars

\* The weak counter: downgrade, weak_many, clone and drop of Weak beside the
\* strong handles.
NextWeak ==
    \/ Advance
    \/ \E e \in BagToSet(bags) : TryZero(e)
    \/ \E b \in Blocks : TryZeroDispose(b)
    \/ \E t \in Threads : RcNew(t)
    \/ \E t \in Threads : \E w \in BagToSet(rcs[t]) : RcClone(t, w)
    \/ \E t \in Threads : \E w \in BagToSet(rcs[t]) : RcDrop(t, w)
    \/ \E t \in Threads : \E w \in BagToSet(rcs[t]) : Downgrade(t, w)
    \/ \E t \in Threads : \E w \in BagToSet(rcs[t]) : \E n \in 1..MaxWeak :
            WeakMany(t, w, n)
    \/ \E t \in Threads : \E w \in BagToSet(weaks[t]) : WeakClone(t, w)
    \/ \E t \in Threads : \E w \in BagToSet(weaks[t]) : WeakDrop(t, w)
    \/ \E t \in Threads : Return(t)

SpecWeak == Init /\ [][NextWeak]_vars

\* The two modes of a critical section: handles are made, cloned and given
\* up by drop and by finalize, under a pinned guard and under the guard of
\* unprotected(), and guards of both kinds are cleared.
NextUnprotected ==
    \/ \E t \in Threads : Pin(t)
    \/ \E t \in Threads : Unpin(t)
    \/ Advance
    \/ \E e \in BagToSet(bags) : TryZero(e)
    \/ \E b \in Blocks : TryZeroDispose(b)
    \/ \E t \in Threads : RcNew(t)
    \/ \E t \in Threads : \E w \in BagToSet(rcs[t]) : RcClone(t, w)
    \/ \E t \in Threads : \E w \in BagToSet(rcs[t]) : RcDrop(t, w)
    \/ \E t \in Threads : \E w \in BagToSet(rcs[t]) : RcFinalize(t, w)
    \/ \E t \in Threads : \E w \in BagToSet(rcs[t]) : RcFinalizeUnprotected(t, w)
    \/ \E t \in Threads : \E guarded \in BOOLEAN : Clear(t, guarded)

SpecUnprotected == Init /\ [][NextUnprotected]_vars

\* Upgrade beside the strong handles: an Rc is made, downgraded, snapshot,
\* counted and dropped while the Weak handles are upgraded and dropped and
\* the epoch engine collects.
NextUpgrade ==
    \/ \E t \in Threads : Pin(t)
    \/ \E t \in Threads : Unpin(t)
    \/ Advance
    \/ \E e \in BagToSet(bags) : TryZero(e)
    \/ \E b \in Blocks : TryZeroDispose(b)
    \/ \E t \in Threads : RcNew(t)
    \/ \E t \in Threads : \E w \in BagToSet(rcs[t]) : RcDrop(t, w)
    \/ \E t \in Threads : \E w \in BagToSet(rcs[t]) : RcSnapshot(t, w)
    \/ \E t \in Threads : Counted(t)
    \/ \E t \in Threads : IncrementStrongAgain(t)
    \/ \E t \in Threads : \E w \in BagToSet(rcs[t]) : Downgrade(t, w)
    \/ \E t \in Threads : \E w \in BagToSet(weaks[t]) : UpgradeBegin(t, w)
    \/ \E t \in Threads : UpgradeStep(t)
    \/ \E t \in Threads : Return(t)

SpecUpgrade == Init /\ [][NextUpgrade]_vars

\* The life of a block under a fair scheduler: handles are made, put in the
\* slot and dropped, snapshots are counted, and the epoch engine runs.
NextLive ==
    \/ \E t \in Threads : Pin(t)
    \/ \E t \in Threads : Unpin(t)
    \/ Advance
    \/ \E e \in BagToSet(bags) : TryZero(e)
    \/ \E b \in Blocks : TryZeroDispose(b)
    \/ \E t \in Threads : RcNew(t)
    \/ \E t \in Threads : IncrementStrongAgain(t)
    \/ \E t \in Threads : \E w \in BagToSet(rcs[t]) : RcDrop(t, w)
    \/ \E t \in Threads : \E w \in BagToSet(rcs[t]) : RcSnapshot(t, w)
    \/ \E t \in Threads : Counted(t)
    \/ \E t \in Threads : \E w \in BagToSet(rcs[t]) : Store(t, w)
    \/ AtomicRcDrop

\* Every thread eventually unpins and completes the increment it is inside;
\* the epoch advances when it can; a collectable closure is eventually run
\* and a try_zero that has read zero goes on to dispose.
Fairness ==
    /\ \A t \in Threads : SF_vars(Unpin(t))
    /\ \A t \in Threads : WF_vars(IncrementStrongAgain(t))
    /\ WF_vars(Advance)
    /\ \A b \in Blocks : WF_vars(\E e \in BagToSet(bags) : e.blk = b /\ TryZero(e))
    /\ \A b \in Blocks : WF_vars(TryZeroDispose(b))

SpecLive == Init /\ [][NextLive]_vars /\ Fairness

(* ------------------------------- claims ------------------------------- *)

\* C1: a counted object is disposed at most once.  At no time is more than
\* one try_zero queued or running for a block (only the decrement that takes
\* strong to zero defers one), none is left once the block is disposed, and
\* dispose has run at most once on every block.
C1_DisposedAtMostOnce ==
    \A b \in Blocks :
        /\ disposed[b] <= 1
        /\ PendingCount(b) <= 1
        /\ disposed[b] = 1 => PendingCount(b) = 0

\* C1's case: a block was disposed although two try_zero runs were deferred
\* for it (its count was raised from zero in between).
C1_Witness == \E b \in Blocks : disposed[b] = 1 /\ b \in resurrected

\* C2: while an Rc handle or the slot owns a unit of a block's strong count
\* (or a thread is completing the increment that creates one), dispose has
\* not run on the block, its memory is not released and no try_zero is about
\* to dispose it.
C2_NoDisposeWhileOwned ==
    \A b \in Blocks :
        (Owners(b) > 0 \/ Incrementing(b)) =>
            disposed[b] = 0 /\ b \notin freed /\ zeroing[b] = 0

\* C2's case: an Rc obtained by counted() after strong had dropped to zero is
\* still held after the try_zero deferred for that zero has run.
C2_Witness ==
    \E b \in resurrected : RcCount(b) > 0 /\ ~Pending(b) /\ disposed[b] = 0

\* C3: the object a pinned thread's Snapshot refers to has not been disposed
\* and its block has not been freed.
C3_SnapshotProtected ==
    \A t \in Threads :
        (Pinned(t) /\ snap[t] # NoSnap /\ ~IsNull(snap[t])) =>
            disposed[snap[t].ptr] = 0 /\ snap[t].ptr \notin freed

\* C3's case: a pinned thread holds a Snapshot of an object that no handle and
\* no slot owns any more, whose try_zero is queued, and the global epoch has
\* moved past the thread's.
C3_Witness ==
    \E t \in Threads :
        /\ Pinned(t) /\ snap[t] # NoSnap /\ ~IsNull(snap[t])
        /\ Owners(snap[t].ptr) = 0
        /\ Pending(snap[t].ptr)
        /\ epoch > local[t]

\* C4: the resurrection race.  A block whose count was raised from zero by
\* counted() is disposed at most once, only when every Rc of it has been
\* dropped, and is not leaked: while it is not disposed and nothing owns it,
\* a try_zero for it is queued or running.
C4_ResurrectionRace ==
    \A b \in resurrected :
        /\ disposed[b] <= 1
        /\ disposed[b] = 1 => (RcCount(b) = 0 /\ ~Incrementing(b))
        /\ (Owners(b) = 0 /\ ~Incrementing(b) /\ disposed[b] = 0) => Pending(b)

\* C4's case: the upgrade succeeded, the new Rc has been dropped, and the
\* object has been destroyed.
C4_Witness ==
    \E b \in resurrected : disposed[b] = 1 /\ destruct_epoch[b] >= 2

\* C5: no leak.  Under the fair scheduler, a block that from some point on is
\* owned by no Rc handle, no slot and no increment in progress is eventually
\* disposed, whether or not its count was raised from zero in between; the
\* only other outcome the model allows is that the global epoch has reached
\* its bound while the block's try_zero is queued and not yet collectable.
C5_NoLeak ==
    \A b \in Blocks :
        <>[](b \in alloc /\ Owners(b) = 0 /\ ~Incrementing(b)) =>
            <>(\/ disposed[b] = 1
               \/ /\ epoch = MaxEpoch
                  /\ \E e \in BagToSet(bags) : e.blk = b /\ ~Collectable(e))

\* C5's case: a block whose try_zero had to decrement again and defer again
\* after a resurrection has been disposed and freed, with nothing left queued.
C5_Witness ==
    \E b \in resurrected :
        /\ Owners(b) = 0 /\ ~Pending(b)
        /\ disposed[b] = 1 /\ b \in freed
        /\ destruct_epoch[b] > 0

\* C6: the grace period.  When try_zero is about to dispose a block, and ever
\* after, the global epoch is at least two past the block's destruct_epoch and
\* every pinned guard's epoch is greater than the destruct_epoch.
C6_GracePeriod ==
    \A b \in Blocks :
        (zeroing[b] > 0 \/ disposed[b] > 0) =>
            /\ epoch >= destruct_epoch[b] + 2
            /\ \A t \in Threads : Pinned(t) => local[t] > destruct_epoch[b]

\* C6's case: try_zero disposes a block while a guard pinned one epoch after
\* the strong-zero transition is still pinned.
C6_Witness ==
    \E b \in Blocks : \E t \in Threads :
        zeroing[b] > 0 /\ Pinned(t) /\ local[t] = destruct_epoch[b] + 1

\* C7 as the specification states it: for every allocated block, strong is
\* the number of outstanding Rc handles plus the slots naming the block plus
\* the remainder of its NewRcIter.
C7_StrongEqualsOwners == \A b \in alloc : strong[b] = Owners(b)

\* C7: strong-count accounting.  For every allocated block, strong is the
\* number of outstanding Rc handles plus the slots naming the block plus the
\* remainder of its NewRcIter, and one more unit while a try_zero is queued
\* for a block whose count has been raised from zero again: the permission
\* for that try_zero to decrement again.
C7_StrongAccounting ==
    \A b \in alloc :
        strong[b] = Owners(b) + (IF Pending(b) /\ strong[b] > 0 THEN 1 ELSE 0)

\* C7's case: an Rc made by counted() from a count of zero is outstanding
\* while the try_zero of that zero is still queued.
C7_Witness ==
    \E b \in resurrected :
        Pending(b) /\ RcCount(b) > 0 /\ strong[b] = Owners(b) + 1

\* C8, for the blocks that have strong handles: weak is the number of
\* outstanding Weak handles plus the one unit of the strong handles.
C8_WeakAccounting ==
    \A b \in alloc :
        (strong[b] > 0 /\ disposed[b] = 0) => weak[b] = WeakCount(b) + 1

\* C9: every handle weak_many returns names the block of the Rc it was
\* called on.
C9_WeakManyHandles ==
    \A t \in Threads :
        res[t].kind = "weak_many" =>
            \A i \in 1..res[t].n : res[t].handles[i].ptr = res[t].rc.ptr

\* C10: compare_exchange returns Err only with a current word whose raw
\* pointer or low tag differs from the expected one, and Ok only after it
\* exchanged a word equal to the expected one in pointer and low tag; a
\* difference in the epoch bits alone is never reported.
C10_NoSpuriousFailure ==
    \A t \in Threads :
        /\ res[t].kind = "err" => ~PtrEq(res[t].current, res[t].expected)
        /\ res[t].kind = "ok" => PtrEq(res[t].current, res[t].expected)

\* C10's case: a compare_exchange found the slot holding the expected pointer
\* and tag under another epoch stamp, went around its loop and succeeded.
C10_Witness ==
    \E t \in Threads :
        /\ res[t].kind = "ok" /\ res[t].retried
        /\ res[t].current.hi # res[t].expected.hi

\* C11: a compare_exchange or compare_exchange_weak that returns Err leaves
\* the slot and every counter as they were, queues no destruction, hands the
\* desired Rc back as it was passed in, and reports as current the word it
\* observed in the slot, which is not ptr_eq to expected.  Throughout, every
\* unit of strong is owned by a handle or the slot, so the Rc handed back
\* still owns its unit.
C11_FailureLeavesState ==
    /\ [](\A b \in alloc : strong[b] = Owners(b))
    /\ [][\A t \in Threads :
            (pc[t] = "cas" /\ pc'[t] = "ret" /\ res'[t].kind = "err") =>
                /\ link' = link
                /\ strong' = strong /\ weak' = weak /\ bags' = bags
                /\ res'[t].desired = arg[t].desired
                /\ rcs'[t] = Give(rcs[t], arg[t].desired)
                /\ res'[t].current = link /\ snap'[t] = link
                /\ ~PtrEq(link, arg[t].expected)]_vars

\* C11's case: a call went around its loop on an epoch-only difference, then
\* met a real mismatch and returned its tagged desired Rc in Err.
C11_Witness ==
    \E t \in Threads :
        /\ res[t].kind = "err" /\ res[t].retried
        /\ ~IsNull(res[t].desired) /\ res[t].desired.tag = 1
        /\ res[t].desired \in BagToSet(rcs[t])

\* C12: a compare_exchange or compare_exchange_weak that returns Ok changes
\* no counter: the slot holds desired's pointer and tag, and the Rc returned
\* is the word the slot held, which is ptr_eq to expected.
C12_SuccessTransfersOwnership ==
    /\ [](\A b \in alloc : strong[b] = Owners(b))
    /\ [][\A t \in Threads :
            (pc[t] = "cas" /\ pc'[t] = "ret" /\ res'[t].kind = "ok") =>
                /\ PtrEq(link', arg[t].desired)
                /\ strong' = strong /\ weak' = weak /\ bags' = bags
                /\ rcs'[t] = Give(rcs[t], link)
                /\ PtrEq(link, arg[t].expected)]_vars

\* C12's case: a call has exchanged one object's Rc for the slot's.
C12_Witness ==
    \E t \in Threads :
        /\ res[t].kind = "ok"
        /\ ~IsNull(res[t].desired) /\ ~IsNull(res[t].current)
        /\ res[t].desired.tag # res[t].current.tag
        /\ PtrEq(link, res[t].desired)
        /\ res[t].current \in BagToSet(rcs[t])

\* C13: the tag race.  At most one call returns Ok and, once every call has
\* returned, exactly one has; a call fails only when another has won; the
\* slot's tag is the winner's; the slot's pointer and the referent's strong
\* count stay what they were.
C13_TagRace ==
    LET oks == {t \in Threads : res[t].kind = "tag_ok"} IN
    /\ Cardinality(oks) <= 1
    /\ (\A t \in Threads : pc[t] = "ret") => Cardinality(oks) = 1
    /\ \A t \in Threads : res[t].kind = "tag_err" => oks # {}
    /\ \A t \in oks : link.tag = t /\ res[t].current.tag = 0
    /\ oks = {} => link.tag = 0
    /\ link.ptr = 1 /\ strong[1] = 1 + NThreads /\ weak[1] = 1 /\ bags = EmptyBag

\* C13's case: every call has returned; the winner had gone around its loop
\* on an epoch-only difference, and another call failed.
C13_Witness ==
    /\ \A t \in Threads : pc[t] = "ret"
    /\ \E t \in Threads : res[t].kind = "tag_ok" /\ res[t].retried /\ link.tag = t
    /\ \E t \in Threads : res[t].kind = "tag_err"

\* C14 as the specification states it: a compare_exchange_tag to the tag the
\* expected Snapshot already has, when it succeeds, leaves the slot's word as
\* it was, epoch tag included.
C14_TagNoOpExact ==
    [][\A t \in Threads :
            (/\ pc[t] = "castag" /\ pc'[t] = "ret" /\ res'[t].kind = "tag_ok"
             /\ arg[t].desired_tag = arg[t].expected.tag) =>
                link' = link]_vars

\* C14: a compare_exchange_tag to the tag the expected Snapshot already has,
\* when it succeeds, leaves the slot's raw pointer and user tag and every
\* counter as they were and queues no destruction; a null word stays as it
\* is, and a non-null word's epoch tag is replaced by the stamp the call made
\* at its start.
C14_TagNoOp ==
    [][\A t \in Threads :
            (/\ pc[t] = "castag" /\ pc'[t] = "ret" /\ res'[t].kind = "tag_ok"
             /\ arg[t].desired_tag = arg[t].expected.tag) =>
                /\ PtrEq(link', link)
                /\ IsNull(link) => link' = link
                /\ link' = arg[t].desired_raw
                /\ strong' = strong /\ weak' = weak /\ bags' = bags
                /\ rcs' = rcs]_vars

\* C14's case: such a call has succeeded on a tagged word and the slot now
\* carries another epoch stamp than the word it replaced.
C14_Witness ==
    \E t \in Threads :
        /\ res[t].kind = "tag_ok"
        /\ res[t].desired_tag = res[t].expected.tag /\ res[t].desired_tag = 1
        /\ link = res[t].desired
        /\ link.hi # res[t].current.hi

\* C15: store(rc, order, guard) puts rc's pointer and tag in the slot and takes
\* the handle from the caller without touching its count; the count of the
\* referent the slot held before goes down by exactly one (no count moves when
\* the slot was null); when that decrement reaches zero the try_zero closure
\* is queued on the guard for the current epoch, and nothing is disposed or
\* freed inside store.
C15_Store ==
    [][\A t \in Threads : \A w \in Passable(t) : Store(t, w) =>
            /\ PtrEq(link', w)
            /\ rcs'[t] = Take(rcs[t], w)
            /\ \A b \in Blocks :
                    strong'[b] = strong[b] - (IF ~IsNull(link) /\ link.ptr = b THEN 1 ELSE 0)
            /\ disposed' = disposed /\ freed' = freed /\ zeroing' = zeroing
            /\ bags' = IF ~IsNull(link) /\ strong[link.ptr] = 1
                       THEN bags (+) SetToBag({[blk |-> link.ptr, stamp |-> epoch]})
                       ELSE bags]_vars

\* store(null) has taken the last unit of a block out of the slot: the count
\* is zero, the closure waits in the current epoch's bag, the object is intact.
C15_Witness ==
    /\ linkLive /\ IsNull(link)
    /\ \E b \in alloc :
        /\ strong[b] = 0 /\ RcCount(b) = 0 /\ disposed[b] = 0 /\ b \notin freed
        /\ [blk |-> b, stamp |-> epoch] \in BagToSet(bags)
        /\ epoch > 0

\* C16: store(x) followed by swap(y) with no write to the slot in between
\* returns an Rc that is ptr_eq to x and owns the unit the slot held, leaves
\* y in the slot, and changes no counter.  In steps: a store leaves the slot
\* ptr_eq to its argument; the slot's word changes only in a store, a swap or
\* the drop of the AtomicRc; a swap hands the caller one more handle of
\* exactly the word the slot held, leaves the slot ptr_eq to its argument and
\* writes no counter and no bag.
C16_StoreThenSwap ==
    /\ [][\A t \in Threads : \A x \in Passable(t) : Store(t, x) => PtrEq(link', x)]_vars
    /\ [][link' # link =>
            \/ \E t \in Threads : \E x \in Passable(t) : Store(t, x) \/ Swap(t, x)
            \/ AtomicRcDrop]_vars
    /\ [][\A t \in Threads : \A y \in Passable(t) : Swap(t, y) =>
            /\ PtrEq(link', y)
            /\ IF IsNull(link)
               THEN BagCardinality(rcs'[t]) =
                        BagCardinality(rcs[t]) - (IF IsNull(y) THEN 0 ELSE 1)
               ELSE /\ CopiesIn(link, rcs'[t]) =
                        CopiesIn(link, rcs[t]) - (IF y = link THEN 1 ELSE 0) + 1
                    /\ BagCardinality(rcs'[t]) =
                        BagCardinality(rcs[t]) - (IF IsNull(y) THEN 0 ELSE 1) + 1
            /\ strong' = strong /\ weak' = weak /\ bags' = bags
            /\ disposed' = disposed /\ freed' = freed]_vars

\* A swap of null has returned the word a store had stamped: the caller holds
\* a handle with the epoch bits of the store, the slot is null, and the block
\* counts that one handle.
C16_Witness ==
    /\ linkLive /\ IsNull(link)
    /\ \E t \in Threads : \E w \in BagToSet(rcs[t]) :
        /\ w.hi # 0
        /\ strong[w.ptr] = 1 /\ RcCount(w.ptr) = 1 /\ ~Pending(w.ptr)

\* C17: rc.clone() followed by the drop of the clone leaves strong as it was
\* and schedules no destruction.  In steps: a clone of a handle the thread
\* owns raises strong by exactly one at once (no second fetch_add, the count
\* is never zero under a handle); the drop of one of two handles the thread
\* owns on a block lowers strong by exactly one, to a count above zero, and
\* queues, disposes and frees nothing.
C17_CloneThenDrop ==
    /\ [](\A t \in Threads : \A w \in BagToSet(rcs[t]) : strong[w.ptr] >= 1)
    /\ [][\A t \in Threads : \A w \in BagToSet(rcs[t]) : RcClone(t, w) =>
            /\ strong' = [strong EXCEPT ![w.ptr] = @ + 1]
            /\ CopiesIn(w, rcs'[t]) = CopiesIn(w, rcs[t]) + 1
            /\ pc' = pc /\ bags' = bags
            /\ disposed' = disposed /\ freed' = freed]_vars
    /\ [][\A t \in Threads : \A w \in BagToSet(rcs[t]) :
            (RcDrop(t, w) /\ CopiesIn(w, rcs[t]) >= 2) =>
                /\ strong' = [strong EXCEPT ![w.ptr] = @ - 1]
                /\ strong'[w.ptr] >= 1
                /\ bags' = bags /\ zeroing' = zeroing
                /\ disposed' = disposed /\ freed' = freed]_vars

\* A thread owns an Rc and its clone and they are the block's only owners:
\* the count is two, and the drop of the clone will take it to one.
C17_Witness ==
    \E t \in Threads : \E w \in BagToSet(rcs[t]) :
        /\ CopiesIn(w, rcs[t]) = 2
        /\ strong[w.ptr] = 2 /\ Owners(w.ptr) = 2
        /\ bags = EmptyBag

\* The non-null Snapshots the pinned threads hold.
HeldSnapshots == {snap[t] : t \in {u \in Threads : Pinned(u) /\ snap[u].ptr \in Blocks}}

\* C18 as the specification states it: for every Snapshot a pinned thread
\* holds, counted() followed by the drop of its Rc leaves strong at the value
\* it had, a zero with a destruction already deferred included.
C18_CountedThenDropExact ==
    \A w \in HeldSnapshots : CountedThenDrop(Cnt, w.ptr).strong = strong

\* C18: for every Snapshot a pinned thread holds, counted() followed by the
\* drop of its Rc leaves a non-zero strong at the value it had; a strong of
\* zero, whose destruction is already deferred, is left at one, the unit the
\* deferred try_zero takes away when it runs.  In both cases the pair queues
\* no closure and disposes and frees nothing.
C18_CountedThenDrop ==
    \A w \in HeldSnapshots :
        LET c == CountedThenDrop(Cnt, w.ptr) IN
        /\ c.strong = [strong EXCEPT ![w.ptr] = IF @ = 0 THEN 1 ELSE @]
        /\ c.bags = bags /\ c.disposed = disposed /\ c.freed = freed
        /\ strong[w.ptr] = 0 => Pending(w.ptr)

\* counted() has run on a count of zero and its Rc has been dropped: the
\* Snapshot is still held, the block has no owner, its try_zero is still
\* queued, and strong is one.
C18_Witness ==
    \E w \in HeldSnapshots :
        /\ w.ptr \in resurrected
        /\ strong[w.ptr] = 1 /\ Owners(w.ptr) = 0 /\ ~Incrementing(w.ptr)
        /\ Pending(w.ptr) /\ disposed[w.ptr] = 0

C20_IterAbort ==
    /\ [](\A t \in Threads : iter[t].remain > 0 =>
            strong[iter[t].ptr] =
                iter[t].remain + RcCount(iter[t].ptr) + SlotCount(iter[t].ptr))
    /\ [][\A t \in Threads : IterNext(t) =>
            /\ iter'[t] = [iter[t] EXCEPT !.remain = @ - 1]
            /\ BagCardinality(rcs'[t]) = BagCardinality(rcs[t]) + 1
            /\ CountOf(rcs'[t], iter[t].ptr) = CountOf(rcs[t], iter[t].ptr) + 1
            /\ strong' = strong /\ bags' = bags]_vars
    /\ [][\A t \in Threads : IterDrop(t) =>
            LET b == iter[t].ptr
                remain == iter[t].remain
                queued == remain > 0 /\ RcCount(b) + SlotCount(b) = 0
            IN  /\ iter'[t] = NoIter
                /\ strong' = [strong EXCEPT ![b] = @ - remain]
                /\ rcs' = rcs
                /\ bags' = IF queued
                           THEN bags (+) SetToBag({[blk |-> b, stamp |-> epoch]})
                           ELSE bags
                /\ disposed' = disposed /\ freed' = freed /\ zeroing' = zeroing]_vars

\* The iterator is gone and one handle it yielded is outstanding: the count
\* is one and no try_zero is queued.
C20_Witness ==
    /\ \A t \in Threads : iter[t] = NoIter
    /\ \E b \in alloc :
        /\ strong[b] = 1 /\ RcCount(b) = 1
        /\ ~Pending(b) /\ disposed[b] = 0

\* C22: for every machine word p and every tag, p.with_tag(tag) has the tag
\* truncated to the low bits as its tag (the tag itself when it fits), the
\* raw pointer of p and the high bits of p; on the words of the model it is
\* the replacement of the tag field.
C22_TagArithmetic ==
    \A t \in Threads : res[t].kind = "with_tag" =>
        LET p == res[t].p
            out == res[t].out
        IN  /\ out \in Bits
            /\ res[t].tag <= LowBits => Tag(out) = res[t].tag
            /\ Tag(out) = res[t].tag % (LowBits + 1)
            /\ AsRaw(out) = AsRaw(p)
            /\ HighTag(out) = HighTag(p)
            /\ Decode(out) = WithTag(Decode(p), res[t].tag)
            /\ Encode(Decode(out)) = out

\* with_tag has truncated a tag wider than the low bits, on a word that names
\* a block, carries another tag and has its high bits set.
C22_Witness ==
    \E t \in Threads :
        /\ res[t].kind = "with_tag"
        /\ res[t].tag > LowBits /\ Tag(res[t].out) # 0
        /\ Tag(res[t].p) # Tag(res[t].out)
        /\ HighTag(res[t].p) # 0 /\ ~IsNull(Decode(res[t].p))

\* C21: ptr_eq is reflexive, symmetric and transitive on the machine words,
\* holds exactly when the words agree in raw pointer and user tag, and ignores
\* the epoch tag; and a pointer that goes through the slot comes back ptr_eq
\* to itself with its user tag: store, swap and a successful compare_exchange
\* leave the slot ptr_eq to the word they install, nothing else changes the
\* slot's word, and load returns the slot's word.
C21_PtrEq ==
    /\ [](\A t \in Threads : res[t].kind = "ptr_eq" =>
            LET r == res[t] IN
            /\ r.aa
            /\ r.ab <=> r.ba
            /\ (r.ab /\ r.bc) => r.ac
            /\ r.stamped
            /\ r.ab <=> (Tag(r.a) = Tag(r.b) /\ Decode(r.a).ptr = Decode(r.b).ptr)
            /\ r.ab <=> PtrEq(Decode(r.a), Decode(r.b)))
    /\ [][\A t \in Threads : \A w \in Passable(t) : (Store(t, w) \/ Swap(t, w)) =>
            /\ PtrEq(link', w) /\ link'.tag = w.tag
            /\ BitsPtrEq(Encode(link'), Encode(w))]_vars
    /\ [][\A t \in Threads : (pc[t] = "cas" /\ pc'[t] = "ret" /\ res'[t].kind = "ok") =>
            /\ PtrEq(link', arg[t].desired) /\ link'.tag = arg[t].desired.tag
            /\ BitsPtrEq(Encode(link'), Encode(arg[t].desired))]_vars
    /\ [][\A t \in Threads : Load(t) => snap'[t] = link]_vars
    /\ [][link' # link =>
            \/ \E t \in Threads : \E w \in Passable(t) : Store(t, w) \/ Swap(t, w)
            \/ \E t \in Threads : pc[t] = "cas" /\ res'[t].kind = "ok"]_vars

\* A tagged Rc installed by compare_exchange has been read back by load: the
\* Snapshot is ptr_eq to the Rc that was passed in and carries its tag, and
\* differs from it in the epoch bits.
C21_Witness ==
    \E t \in Threads : \E u \in Threads :
        /\ snap[t] = link /\ link.hi # 0 /\ link.tag = 1
        /\ pc[u] = "ret" /\ res[u].kind = "ok"
        /\ res[u].desired.hi = 0
        /\ PtrEq(snap[t], res[u].desired)
        /\ Encode(snap[t]) # Encode(res[u].desired)

\* C23: upgrade adds its unit to strong only on a count it observed above
\* zero, and returns None on an observed count of zero: no step of an upgrade
\* changes a strong of zero, the step that returns an Rc raises a non-zero
\* strong by exactly one, and an Rc is never outstanding on a disposed block,
\* however the upgrade interleaves with the drop of the last Rc.
C23_Upgrade ==
    /\ [](\A t \in Threads :
            /\ res[t].kind = "upgrade_some" => res[t].count > 0
            /\ res[t].kind = "upgrade_none" => res[t].count = 0)
    /\ [](\A b \in alloc : disposed[b] >= 1 => RcCount(b) = 0)
    /\ [][\A t \in Threads : UpgradeStep(t) =>
            LET b == arg[t].word.ptr IN
            /\ strong[b] = 0 => strong' = strong
            /\ res'[t].kind = "upgrade_some" <=> strong' # strong
            /\ res'[t].kind = "upgrade_some" =>
                    /\ strong[b] > 0
                    /\ strong' = [strong EXCEPT ![b] = @ + 1]
                    /\ CountOf(rcs'[t], b) = CountOf(rcs[t], b) + 1
            /\ res'[t].kind = "upgrade_none" => rcs' = rcs]_vars

\* An upgrade that first observed a count above zero has lost its
\* compare-and-swap to the drop of the last Rc, has read zero and has
\* returned None; strong is still zero and the object awaits destruction.
C23_Witness ==
    \E t \in Threads :
        /\ pc[t] = "ret" /\ res[t].kind = "upgrade_none" /\ res[t].retried
        /\ strong[res[t].word.ptr] = 0
        /\ Pending(res[t].word.ptr)

\* C24: a defer under the guard of unprotected() runs its closure inside the
\* call: a finalize that takes the count to zero in that mode has disposed
\* and freed the block when it returns and has queued nothing; under a pinned
\* guard the same finalize disposes nothing and leaves the closure in the bag
\* of the current epoch.  Clearing an unprotected guard changes nothing,
\* clearing a pinned guard repins it at the global epoch.
C24_Unprotected ==
    /\ [][\A t \in Threads : \A w \in BagToSet(rcs[t]) :
            (RcFinalizeUnprotected(t, w) /\ strong[w.ptr] = 1) =>
                /\ strong'[w.ptr] = 0
                /\ disposed' = [disposed EXCEPT ![w.ptr] = @ + 1]
                /\ freed' = freed \cup {w.ptr}
                /\ bags' = bags]_vars
    /\ [][\A t \in Threads : \A w \in BagToSet(rcs[t]) :
            (RcFinalize(t, w) /\ strong[w.ptr] = 1) =>
                /\ strong'[w.ptr] = 0
                /\ disposed' = disposed /\ freed' = freed
                /\ bags' = bags (+) SetToBag({[blk |-> w.ptr, stamp |-> epoch]})]_vars
    /\ [][\A t \in Threads : Clear(t, FALSE) => UNCHANGED vars]_vars
    /\ [][\A t \in Threads : Clear(t, TRUE) => local'[t] = epoch]_vars

\* A finalize under unprotected() has destroyed the block with nothing
\* queued in any epoch up to now, and no thread is pinned.
C24_Witness ==
    \E b \in alloc :
        /\ disposed[b] = 1 /\ b \in freed /\ strong[b] = 0
        /\ bags = EmptyBag /\ epoch = 0
        /\ \A t \in Threads : ~Pinned(t)

(***************************************************************************)
(* The doubly linked queue of tests/doubly_linked_queue.rs.  The queue is  *)
(* modelled at the level of its own atomic steps: every load, store and    *)
(* compare_exchange on head, tail and a node's next link is one step.  A   *)
(* node is named by its position in heap.nodes; the test threads hold      *)
(* every node they read through a Snapshot under their guard, so a name is *)
(* never reused while a thread holds it.  A compare_exchange on a slot     *)
(* succeeds exactly when the slot holds the expected pointer (C10).        *)
(***************************************************************************)
MaxItems == 3
MaxDequeues == 5
ElementsPerThread == 2

rcState == <<strong, weak, alloc, disposed, freed, link, linkLive, rcs, weaks, iter, snap,
          pc, arg, res, epoch, local, bags, zeroing, resurrected, destruct_epoch>>

\* Node::sentinel and Node::new: item is an Option, an empty or a one-element sequence
NodeSentinel == [item |-> <<>>, prev |-> Null, next |-> Null]
NodeNew(item) == [item |-> <<item>>, prev |-> Null, next |-> Null]

\* DoubleLink::new: one sentinel, held by both head and tail
DoubleLinkNew == [nodes |-> <<NodeSentinel>>, head |-> 1, tail |-> 1]

\* a thread of the test: its position, the locals of enqueue and dequeue, the
\* number of enqueues it started and the results of its dequeues
QueueFrame == [pc |-> "idle", node |-> Null, ltail |-> Null, lprev |-> Null,
               lhead |-> Null, lnext |-> Null, enq |-> 0, out |-> <<>>]

NodeIsNull(p) == p = Null

CasAlways(current, expected) == TRUE
CasOk(current, expected) == current = expected

\* what a dequeue returns: None, or the Output whose found is lnext
NoneOut == [some |-> FALSE, item |-> <<>>]
FoundHead(lhead, lnext) == lhead
Found(lhead, lnext) == lnext
SomeOut(n) == [some |-> TRUE, item |-> heap.nodes[n].item]

\* enqueue: Rc::new_many makes the node and its second handle
EnqueueBegin(t, item) ==
    /\ frames[t].pc = "idle"
    /\ heap' = [heap EXCEPT !.nodes = Append(@, NodeNew(item))]
    /\ frames' = [frames EXCEPT ![t].pc = "enq_load",
                                ![t].node = Len(heap.nodes) + 1,
                                ![t].enq = @ + 1]
    /\ UNCHANGED rcState

\* ltail = tail.load; node.prev = ltail.downgrade(); lprev = ltail.prev
EnqueueLoad(t) ==
    /\ frames[t].pc = "enq_load"
    /\ heap' = [heap EXCEPT !.nodes[frames[t].node].prev = heap.tail]
    /\ frames' = [frames EXCEPT ![t].ltail = heap.tail,
                                ![t].lprev = heap.nodes[heap.tail].prev,
                                ![t].pc = IF NodeIsNull(heap.nodes[heap.tail].prev)
                                          THEN "enq_cas" ELSE "enq_peek"]
    /\ UNCHANGED rcState

\* lprev.next.load(..).is_null()
EnqueuePeek(t) ==
    /\ frames[t].pc = "enq_peek"
    /\ frames' = [frames EXCEPT ![t].pc = IF NodeIsNull(heap.nodes[frames[t].lprev].next)
                                          THEN "enq_help" ELSE "enq_cas"]
    /\ UNCHANGED <<heap, rcState>>

\* lprev.next.store(ltail.upgrade()): helping the previous enqueue
EnqueueHelp(t) ==
    /\ frames[t].pc = "enq_help"
    /\ heap' = [heap EXCEPT !.nodes[frames[t].lprev].next = frames[t].ltail]
    /\ frames' = [frames EXCEPT ![t].pc = "enq_cas"]
    /\ UNCHANGED rcState

\* tail.compare_exchange(ltail, node): Err hands the node back and loops
EnqueueCas(t) ==
    /\ frames[t].pc = "enq_cas"
    /\ IF CasOk(heap.tail, frames[t].ltail)
       THEN /\ heap' = [heap EXCEPT !.tail = frames[t].node]
            /\ frames' = [frames EXCEPT ![t].pc = "enq_store"]
       ELSE /\ heap' = heap
            /\ frames' = [frames EXCEPT ![t].pc = "enq_load"]
    /\ UNCHANGED rcState

\* ltail.next.store(sub); return
EnqueueStore(t) ==
    /\ frames[t].pc = "enq_store"
    /\ heap' = [heap EXCEPT !.nodes[frames[t].ltail].next = frames[t].node]
    /\ frames' = [frames EXCEPT ![t].pc = "idle"]
    /\ UNCHANGED rcState

\* dequeue is called
DequeueBegin(t) ==
    /\ frames[t].pc = "idle"
    /\ frames' = [frames EXCEPT ![t].pc = "deq_head"]
    /\ UNCHANGED <<heap, rcState>>

\* lhead = head.load
DequeueHead(t) ==
    /\ frames[t].pc = "deq_head"
    /\ frames' = [frames EXCEPT ![t].lhead = heap.head, ![t].pc = "deq_next"]
    /\ UNCHANGED <<heap, rcState>>

\* lnext = lhead.next.load; a null lnext returns None
DequeueNext(t) ==
    /\ frames[t].pc = "deq_next"
    /\ IF NodeIsNull(heap.nodes[frames[t].lhead].next)
       THEN frames' = [frames EXCEPT ![t].lnext = Null,
                                     ![t].out = Append(@, NoneOut),
                                     ![t].pc = "idle"]
       ELSE frames' = [frames EXCEPT ![t].lnext = heap.nodes[frames[t].lhead].next,
                                     ![t].pc = "deq_cas"]
    /\ UNCHANGED <<heap, rcState>>

\* head.compare_exchange(lhead, lnext.upgrade()): Ok returns Some, Err loops
DequeueCas(t) ==
    /\ frames[t].pc = "deq_cas"
    /\ IF CasOk(heap.head, frames[t].lhead)
       THEN /\ heap' = [heap EXCEPT !.head = frames[t].lnext]
            /\ frames' = [frames EXCEPT
                   ![t].out = Append(@, SomeOut(Found(frames[t].lhead, frames[t].lnext))),
                   ![t].pc = "idle"]
       ELSE /\ heap' = heap
            /\ frames' = [frames EXCEPT ![t].pc = "deq_head"]
    /\ UNCHANGED rcState

InitQueue ==
    /\ Init!1 /\ Init!2 /\ Init!3 /\ Init!4 /\ Init!5 /\ Init!6 /\ Init!7 /\ Init!8
    /\ Init!9 /\ Init!10 /\ Init!11 /\ Init!12 /\ Init!13 /\ Init!14 /\ Init!15
    /\ Init!16 /\ Init!17 /\ Init!18 /\ Init!19 /\ Init!20
    /\ heap = DoubleLinkNew
    /\ frames = [t \in Threads |-> QueueFrame]

\* test simple: one thread enqueues 1, 2, 3, ... and dequeues, in any order
NextFifo ==
    \/ (frames[1].enq < MaxItems /\ EnqueueBegin(1, frames[1].enq + 1))
    \/ EnqueueLoad(1)
    \/ EnqueuePeek(1)
    \/ EnqueueCas(1)
    \/ EnqueueStore(1)
    \/ (Len(frames[1].out) < MaxDequeues /\ DequeueBegin(1))
    \/ DequeueHead(1)
    \/ DequeueNext(1)
    \/ DequeueCas(1)

SpecFifo == InitQueue /\ [][NextFifo]_vars

\* the Some results of a sequence of dequeue results
RECURSIVE Somes(_)
Somes(out) ==
    IF out = <<>> THEN <<>>
    ELSE IF out[1].some THEN <<out[1].item>> \o Somes(Tail(out))
    ELSE Somes(Tail(out))

\* C25: on one thread the dequeues that return an item return the enqueued
\* items 1, 2, 3, ... in the order of their enqueues; a dequeue returns None
\* exactly when every item enqueued so far has been dequeued (a fresh queue
\* included), and that dequeue leaves the queue as it was.  The helping store
\* is never needed by a single thread.
C25_Fifo ==
    /\ [](\A i \in 1..Len(Somes(frames[1].out)) : Somes(frames[1].out)[i] = <<i>>)
    /\ [](Len(Somes(frames[1].out)) <= frames[1].enq)
    /\ [](frames[1].pc # "enq_help")
    /\ [][DequeueNext(1) =>
            /\ heap' = heap
            /\ (Len(frames'[1].out) > Len(frames[1].out)) <=>
                    (Len(Somes(frames[1].out)) = frames[1].enq)
            /\ (Len(frames'[1].out) > Len(frames[1].out)) =>
                    ~frames'[1].out[Len(frames'[1].out)].some]_vars
    /\ [][DequeueHead(1) => heap' = heap]_vars

\* The run of test simple: None on the fresh queue, then 1, 2, 3 in order,
\* then None again.
C25_Witness ==
    /\ frames[1].pc = "idle"
    /\ frames[1].enq = 3
    /\ frames[1].out = <<NoneOut, [some |-> TRUE, item |-> <<1>>],
                         [some |-> TRUE, item |-> <<2>>],
                         [some |-> TRUE, item |-> <<3>>], NoneOut>>

\* test smoke: thread t enqueues the values t * ELEMENTS_PER_THREAD + i (t from
\* zero); the first scope is joined before the threads of the second start
EnqueuesReturned ==
    \A t \in Threads :
        /\ frames[t].enq = ElementsPerThread
        /\ frames[t].pc \notin {"enq_load", "enq_peek", "enq_help", "enq_cas", "enq_store"}

NextMpmc ==
    \E t \in Threads :
        \/ /\ frames[t].enq < ElementsPerThread
           /\ EnqueueBegin(t, ((t - 1) * ElementsPerThread) + frames[t].enq)
        \/ EnqueueLoad(t)
        \/ EnqueuePeek(t)
        \/ EnqueueHelp(t)
        \/ EnqueueCas(t)
        \/ EnqueueStore(t)
        \/ /\ EnqueuesReturned
           /\ Len(frames[t].out) < ElementsPerThread
           /\ DequeueBegin(t)
        \/ DequeueHead(t)
        \/ DequeueNext(t)
        \/ DequeueCas(t)

SpecMpmc == InitQueue /\ [][NextMpmc]_vars

\* the values the threads of test smoke enqueue, and the results returned so far
Enqueued == 0..((NThreads * ElementsPerThread) - 1)
Returned == {<<t, i>> : t \in Threads, i \in 1..ElementsPerThread}
DequeuesReturned ==
    \A t \in Threads : frames[t].pc = "idle" /\ Len(frames[t].out) = ElementsPerThread

\* C26: threads enqueue concurrently, and once every enqueue has returned
\* they dequeue concurrently, as many times as there are items.  Under every
\* interleaving of the steps on tail, head and the next links, the helping
\* store included, every dequeue returns Some, no value is returned twice,
\* and when all dequeues have returned every enqueued value has been returned.
C26_Mpmc ==
    /\ \A t \in Threads : \A i \in 1..Len(frames[t].out) : frames[t].out[i].some
    /\ \A x, y \in Returned :
           (/\ x # y
            /\ x[2] <= Len(frames[x[1]].out)
            /\ y[2] <= Len(frames[y[1]].out)) =>
               frames[x[1]].out[x[2]].item # frames[y[1]].out[y[2]].item
    /\ DequeuesReturned =>
           {frames[x[1]].out[x[2]].item : x \in Returned} = {<<v>> : v \in Enqueued}

\* All dequeues have returned, and the first thread's first dequeue returned
\* the first value of the second thread, whose enqueue won the race on tail.
C26_Witness ==
    /\ DequeuesReturned
    /\ frames[1].out[1].item = <<ElementsPerThread>>
    /\ heap.head = heap.tail

(***************************************************************************)
(* The Harris list of tests/harris_list.rs, modelled like the queue: one   *)
(* step per load, compare_exchange or compare_exchange_tag of a next link. *)
(* A link is a pointer word whose low tag 1 marks its node as removed; a   *)
(* compare_exchange succeeds exactly when the link is ptr_eq to the        *)
(* expected word (C10, C13).  heap.nodes[1] is the dummy head.             *)
(***************************************************************************)
MaxKey == 3
ListOps == 2

Keys == 0..(MaxKey - 1)

\* test smoke: thread t (from zero) owns the keys k * THREADS + t
KeysOf(t) == {k \in Keys : k % NThreads = t - 1}

\* i.to_string(): the value stored under key i
ValueOf(k) == <<"string", k>>

\* Node::head and Node::new
ListHead == [key |-> 0, value |-> <<>>, next |-> NullWord]
ListNode(k) == [key |-> k, value |-> ValueOf(k), next |-> NullWord]

\* ListMap::new
ListMapNew == [nodes |-> <<ListHead>>, head |-> 1]

\* a thread of the test: its position, the operation it runs, the cursor and
\* the locals of find_harris, insert and remove, and the results it returned
ListFrame == [pc |-> "idle", op |-> "none", key |-> 0, node |-> Null,
              prev |-> Null, curr |-> NullWord, prev_next |-> NullWord,
              next |-> NullWord, found |-> <<>>, pre |-> FALSE, out |-> <<>>]

\* next.tag() != 0: the node whose link this is has been removed
MarkedNever(next) == FALSE
Marked(next) == next.tag # 0

\* the expected word of remove's compare_exchange_tag: next.with_tag(0)
RemoveExpectedAsLoaded(next) == next
RemoveExpected(next) == WithTag(next, 0)

\* what the finished and the running operations say about a key
Results == {<<t, i>> : t \in Threads, i \in 1..ListOps}
Inserted(k) ==
    \E x \in Results :
        /\ x[2] <= Len(frames[x[1]].out)
        /\ frames[x[1]].out[x[2]].op = "insert"
        /\ frames[x[1]].out[x[2]].key = k
        /\ frames[x[1]].out[x[2]].res = <<>>
Began(t, op, k) ==
    \/ frames[t].pc # "idle" /\ frames[t].op = op /\ frames[t].key = k
    \/ \E i \in 1..Len(frames[t].out) :
           frames[t].out[i].op = op /\ frames[t].out[i].key = k

\* harris_get, harris_insert, harris_remove are called; insert makes its node
ListBegin(t, op, k) ==
    /\ frames[t].pc = "idle"
    /\ heap' = IF op = "insert"
               THEN [heap EXCEPT !.nodes = Append(@, ListNode(k))]
               ELSE heap
    /\ frames' = [frames EXCEPT
           ![t].pc = "cursor", ![t].op = op, ![t].key = k,
           ![t].node = IF op = "insert" THEN Len(heap.nodes) + 1 ELSE Null,
           ![t].pre = Inserted(k) /\ \A u \in Threads : ~Began(u, "remove", k)]
    /\ UNCHANGED rcState

\* Cursor::new: prev = head.load; curr = prev.next.load
CursorNew(t) ==
    /\ frames[t].pc = "cursor"
    /\ frames' = [frames EXCEPT
           ![t].prev = heap.head,
           ![t].curr = heap.nodes[heap.head].next,
           ![t].prev_next = heap.nodes[heap.head].next,
           ![t].pc = "find"]
    /\ UNCHANGED <<heap, rcState>>

\* one turn of the loop of find_harris: at most one load of curr.next
FindHarris(t) ==
    /\ frames[t].pc = "find"
    /\ LET f == frames[t]
           next == heap.nodes[f.curr.ptr].next
           curr_key == heap.nodes[f.curr.ptr].key
       IN  frames' = [frames EXCEPT ![t] =
               IF IsNull(f.curr) THEN [f EXCEPT !.found = <<>>, !.pc = "cleanup"]
               ELSE IF Marked(next) THEN [f EXCEPT !.curr = WithTag(next, 0)]
               ELSE IF curr_key < f.key
                    THEN [f EXCEPT !.prev = f.curr.ptr, !.curr = next, !.prev_next = next]
               ELSE IF curr_key = f.key
                    THEN [f EXCEPT !.found = <<heap.nodes[f.curr.ptr].value>>,
                                   !.pc = "cleanup"]
               ELSE [f EXCEPT !.found = <<>>, !.pc = "cleanup"]]
    /\ UNCHANGED <<heap, rcState>>

\* where an operation goes when its find returned Ok(found)
AfterFind(f) ==
    IF f.op = "get" \/ (f.op = "insert" /\ f.found # <<>>)
                    \/ (f.op = "remove" /\ f.found = <<>>)
    THEN "return"
    ELSE IF f.op = "insert" THEN "insert" ELSE "remove"

\* the end of find_harris: adjacent prev and curr need no clean-up; else the
\* removed nodes between them are unlinked by one compare_exchange, whose
\* failure restarts the search in get
FindCleanup(t) ==
    /\ frames[t].pc = "cleanup"
    /\ LET f == frames[t] IN
       IF PtrEq(f.prev_next, f.curr)
       THEN /\ heap' = heap
            /\ frames' = [frames EXCEPT ![t].pc = AfterFind(f)]
       ELSE IF PtrEq(heap.nodes[f.prev].next, f.prev_next)
       THEN /\ heap' = [heap EXCEPT !.nodes[f.prev].next = f.curr]
            /\ frames' = [frames EXCEPT ![t].pc = AfterFind(f)]
       ELSE /\ heap' = heap
            /\ frames' = [frames EXCEPT ![t].pc = "cursor"]
    /\ UNCHANGED rcState

\* Cursor::insert: node.next.swap(curr) on the private node, then
\* prev.next.compare_exchange(curr, node); Err hands the node back to the loop
CursorInsert(t) ==
    /\ frames[t].pc = "insert"
    /\ LET f == frames[t] IN
       IF PtrEq(heap.nodes[f.prev].next, f.curr)
       THEN /\ heap' = [heap EXCEPT !.nodes[f.node].next = f.curr,
                                    !.nodes[f.prev].next = Word(f.node, 0, 0)]
            /\ frames' = [frames EXCEPT ![t].found = <<>>, ![t].pc = "return"]
       ELSE /\ heap' = [heap EXCEPT !.nodes[f.node].next = f.curr]
            /\ frames' = [frames EXCEPT ![t].pc = "cursor"]
    /\ UNCHANGED rcState

\* Cursor::remove: next = curr.next.load
CursorRemoveLoad(t) ==
    /\ frames[t].pc = "remove"
    /\ frames' = [frames EXCEPT ![t].next = heap.nodes[frames[t].curr.ptr].next,
                                ![t].pc = "mark"]
    /\ UNCHANGED <<heap, rcState>>

\* Cursor::remove: curr.next.compare_exchange_tag(next.with_tag(0), 1); Err
\* restarts the removal
CursorRemoveMark(t) ==
    /\ frames[t].pc = "mark"
    /\ LET f == frames[t] IN
       IF PtrEq(heap.nodes[f.curr.ptr].next, RemoveExpected(f.next))
       THEN /\ heap' = [heap EXCEPT !.nodes[f.curr.ptr].next = WithTag(@, 1)]
            /\ frames' = [frames EXCEPT ![t].pc = "unlink"]
       ELSE /\ heap' = heap
            /\ frames' = [frames EXCEPT ![t].pc = "cursor"]
    /\ UNCHANGED rcState

\* Cursor::remove: prev.next.compare_exchange(curr, next), its result ignored
CursorRemoveUnlink(t) ==
    /\ frames[t].pc = "unlink"
    /\ LET f == frames[t] IN
       /\ heap' = IF PtrEq(heap.nodes[f.prev].next, f.curr)
                  THEN [heap EXCEPT !.nodes[f.prev].next = f.next]
                  ELSE heap
       /\ frames' = [frames EXCEPT ![t].pc = "return"]
    /\ UNCHANGED rcState

\* the operation returns found; pre says that the key was inserted and no
\* removal of it had begun when the operation was called, stable that no
\* other thread's removal of it has begun since
ListReturn(t) ==
    /\ frames[t].pc = "return"
    /\ LET f == frames[t] IN
       frames' = [frames EXCEPT
           ![t].pc = "idle",
           ![t].out = Append(@, [op |-> f.op, key |-> f.key, res |-> f.found,
                                 pre |-> f.pre,
                                 stable |-> f.pre /\ \A u \in Threads \ {t} :
                                                         ~Began(u, "remove", f.key)])]
    /\ UNCHANGED <<heap, rcState>>

InitList ==
    /\ Init!1 /\ Init!2 /\ Init!3 /\ Init!4 /\ Init!5 /\ Init!6 /\ Init!7 /\ Init!8
    /\ Init!9 /\ Init!10 /\ Init!11 /\ Init!12 /\ Init!13 /\ Init!14 /\ Init!15
    /\ Init!16 /\ Init!17 /\ Init!18 /\ Init!19 /\ Init!20
    /\ heap = ListMapNew
    /\ frames = [t \in Threads |-> ListFrame]

\* every thread inserts keys of its own, each at most once, and gets and
\* removes any key, ListOps operations in all, in any order
NextList ==
    \E t \in Threads :
        \/ /\ Len(frames[t].out) < ListOps
           /\ \E k \in KeysOf(t) : ~Began(t, "insert", k) /\ ListBegin(t, "insert", k)
        \/ /\ Len(frames[t].out) < ListOps
           /\ \E k \in Keys : ListBegin(t, "remove", k)
        \/ /\ Len(frames[t].out) < ListOps
           /\ \E k \in Keys : ListBegin(t, "get", k)
        \/ CursorNew(t)
        \/ FindHarris(t)
        \/ FindCleanup(t)
        \/ CursorInsert(t)
        \/ CursorRemoveLoad(t)
        \/ CursorRemoveMark(t)
        \/ CursorRemoveUnlink(t)
        \/ ListReturn(t)

SpecList == InitList /\ [][NextList]_vars

\* the results returned so far, and the node of a key (a key is inserted at
\* most once, by the thread that owns it)
Entries == {x \in Results : x[2] <= Len(frames[x[1]].out)}
Entry(x) == frames[x[1]].out[x[2]]
NodesOf(k) == {n \in 2..Len(heap.nodes) : heap.nodes[n].key = k}
Linked(n) == \E m \in 1..Len(heap.nodes) : heap.nodes[m].next.ptr = n

\* the removals of key k that have marked its node: those past their
\* compare_exchange_tag, and those that returned Some
Marking(k) ==
    {t \in Threads : /\ frames[t].op = "remove" /\ frames[t].key = k
                     /\ \/ frames[t].pc = "unlink"
                        \/ frames[t].pc = "return" /\ frames[t].found # <<>>}
Removed(k) == {x \in Entries : Entry(x).op = "remove" /\ Entry(x).key = k
                                 /\ Entry(x).res # <<>>}

\* C27: a harris_remove returns None or the value inserted under its key,
\* never another key's value; a remove of a key that was inserted before the
\* call and that no other removal touches returns Some(value), whatever the
\* other threads insert, get or remove under other keys; and of all removals
\* of one key exactly one succeeds, the one whose compare_exchange_tag turned
\* the tag of the node's next from 0 to 1.
C27_Remove ==
    /\ \A x \in Entries :
           Entry(x).op = "remove" =>
               /\ Entry(x).res \in {<<>>, <<ValueOf(Entry(x).key)>>}
               /\ Entry(x).stable => Entry(x).res = <<ValueOf(Entry(x).key)>>
    /\ \A k \in Keys :
           Cardinality(Marking(k)) + Cardinality(Removed(k)) =
               Cardinality({n \in NodesOf(k) : heap.nodes[n].next.tag = 1})

\* Two removals of one inserted key that ran at the same time: the one called
\* first, before any removal of the key had begun, returned None, and the
\* other, which marked the node, returned the value.
C27_Witness ==
    /\ \E x, y \in Entries :
           /\ x[1] # y[1]
           /\ Entry(x).op = "remove" /\ Entry(y).op = "remove"
           /\ Entry(x).key = Entry(y).key
           /\ Entry(y).pre
           /\ Entry(x).res # <<>> /\ Entry(y).res = <<>>
    /\ \A t \in Threads : frames[t].pc = "idle"

\* C28: an insert of a key that was never inserted returns None; from then on,
\* as long as no removal of that key begins, every harris_get of it returns
\* its value, during and after inserts of other keys and removals of other
\* keys, the unlinking of removed nodes by find_harris included.
C28_Retain ==
    \A x \in Entries :
        /\ Entry(x).op = "insert" => Entry(x).res = <<>>
        /\ (Entry(x).op = "get" /\ Entry(x).stable) =>
               Entry(x).res = <<ValueOf(Entry(x).key)>>

\* A get found its inserted key while the node of another key, marked by a
\* removal that has not yet tried to unlink it, was unlinked by a find_harris.
C28_Witness ==
    \E x \in Entries : \E u \in Threads \ {x[1]} :
        /\ Entry(x).op = "get" /\ Entry(x).stable
        /\ Entry(x).res = <<ValueOf(Entry(x).key)>>
        /\ frames[u].pc = "unlink" /\ frames[u].key # Entry(x).key
        /\ ~Linked(frames[u].curr.ptr)
        /\ Inserted(frames[u].key)

(***************************************************************************)
(* Progress.  The first thread runs pin, load, store, swap, clone, drop    *)
(* and compare_exchange on the slot; the other threads pin, unpin, load,   *)
(* clone and drop but never write the slot, and may stop for ever at any   *)
(* point, pinned or inside a guard's lifetime: nothing is assumed of them. *)
(* Of the first thread it is only assumed that it goes on taking the steps *)
(* of the loop it is inside.                                               *)
(***************************************************************************)
NextProgress ==
    \/ Advance
    \/ \E t \in Threads : Pin(t)
    \/ \E t \in Threads : Unpin(t)
    \/ \E t \in Threads : Load(t)
    \/ \E t \in Threads : \E w \in BagToSet(rcs[t]) : RcClone(t, w)
    \/ \E t \in Threads : \E w \in BagToSet(rcs[t]) : RcDrop(t, w)
    \/ \E w \in Passable(1) : Store(1, w)
    \/ \E w \in Passable(1) : Swap(1, w)
    \/ \E w \in Passable(1) : CompareExchangeBegin(1, w)
    \/ CompareExchangeStep(1)
    \/ Return(1)

SpecProgress == InitCas /\ [][NextProgress]_vars /\ WF_vars(CompareExchangeStep(1))

\* C29 as stated, where no other thread ever changes the slot: every extra
\* turn of the loop of compare_exchange is caused by another thread's change
\* of the slot, so the loop never takes an extra turn.
C29_RetryOnlyAfterOthers ==
    \A t \in Threads : ~(pc[t] = "cas" /\ arg[t].retried)

\* C29: no operation waits for another thread: pin, load, store, swap, clone
\* and drop can be taken whenever the caller's own handles and guard allow,
\* whatever the other threads do or have stopped doing, and each is one step;
\* a compare_exchange can always take its next turn.  While no other thread
\* changes the slot the loop takes at most one extra turn (when the slot's
\* word differs from the expected snapshot's in the epoch tag only, as after
\* the caller's own store), and the call returns.
C29_Progress ==
    /\ [](\A t \in Threads :
            /\ (pc[t] = "idle" /\ ~Pinned(t)) => ENABLED Pin(t)
            /\ (pc[t] = "idle" /\ Pinned(t) /\ linkLive) =>
                   /\ ENABLED Load(t)
                   /\ \A w \in Passable(t) : ENABLED Store(t, w)
            /\ (pc[t] = "idle" /\ linkLive) =>
                   \A w \in Passable(t) :
                       BagCardinality(Take(rcs[t], w)) < MaxRc => ENABLED Swap(t, w)
            /\ pc[t] = "idle" =>
                   \A w \in BagToSet(rcs[t]) :
                       /\ Room(t) => ENABLED RcClone(t, w)
                       /\ ENABLED RcDrop(t, w)
            /\ pc[t] = "cas" => ENABLED CompareExchangeStep(t))
    /\ [][(\/ Pin(1) \/ Load(1)
           \/ \E w \in Passable(1) : Store(1, w) \/ Swap(1, w)
           \/ \E w \in BagToSet(rcs[1]) : RcClone(1, w) \/ RcDrop(1, w))
          => pc'[1] = "idle"]_vars
    /\ [][(CompareExchangeStep(1) /\ arg[1].retried) => pc'[1] = "ret"]_vars
    /\ (pc[1] = "cas") ~> (pc[1] = "ret")

\* A compare_exchange of the first thread has returned Ok after one extra
\* turn, while another thread is pinned in an earlier epoch and holds a
\* snapshot, and nobody else has written the slot.
C29_Witness ==
    /\ pc[1] = "ret" /\ res[1].kind = "ok" /\ res[1].retried
    /\ \E u \in Threads \ {1} : Pinned(u) /\ snap[u] # NoSnap /\ local[u] < epoch

(***************************************************************************)
(* The IRD engine on a singly linked chain (spec 4.4).  EdgeTaker::take    *)
(* pushes every outgoing edge of a dying node into the buffer of the       *)
(* dispose that runs (strong.rs 92-98); the loop that drains the buffer is *)
(* not in src/ and is modelled from spec 4.4, read as one loop over one    *)
(* buffer: an inline destruction hands the target's edges to the buffer    *)
(* being drained.  frames[1].stack is the call stack of the thread that    *)
(* drops the head, one entry per dispose that has not returned.  The       *)
(* installation epochs are kept as whole epochs: the high tag is taken to  *)
(* be wide enough for the epochs of the run.                               *)
(***************************************************************************)
MaxChain == 3

\* a node of the chain: its strong count, its next edge with the epoch at
\* which the edge was installed, and what has become of it; owners keeps the
\* strong count the node had before the drop
ChainNode(n, len, count, stamp) ==
    [strong |-> count, owners |-> count,
     next |-> IF n < len THEN n + 1 ELSE Null, install |-> stamp,
     destroyed |-> FALSE, destruct_epoch |-> 0]

IrdFrame == [pc |-> "idle", stack |-> <<>>, depth |-> 0]

\* EdgeTaker::take on the node's one edge: the edge leaves the node, and a
\* TryIRD of it, with the stamp of its installation, enters the buffer
PopEdges(nodes, n) == <<[rc |-> nodes[n].next, stamp |-> nodes[n].install]>>

\* dispose of node n at epoch g: its edge is taken and its data dropped
Disposed(nodes, n, g) ==
    [nodes EXCEPT ![n].next = Null, ![n].destroyed = TRUE, ![n].destruct_epoch = g]

\* A window that opens one epoch after the installation.
SafeWindowOneEpoch(stamp, g) == stamp + 1 <= g

\* the safe window of spec 4.4: the edge was installed two epochs before g
SafeWindow(stamp, g) == stamp + 2 <= g

\* An inline destruction that calls dispose anew, with a buffer of its own.
DisposeInlineNested(stack, n, popped) ==
    Append(stack, [node |-> n, popped |-> popped])

\* the inline destruction of spec 4.4: the edges of the target join the
\* buffer of the dispose that is running
DisposeInline(stack, n, popped) ==
    [stack EXCEPT ![Len(stack)].popped = @ \o popped]

Deeper(f, stack) ==
    [f EXCEPT !.stack = stack,
              !.depth = IF Len(stack) > @ THEN Len(stack) ELSE @]

\* the last Rc of the head is dropped: decrement_strong, and when the count
\* reaches zero dispose runs on the head
IrdBegin(t) ==
    /\ frames[t].pc = "idle"
    /\ LET hit_zero == heap.nodes[1].strong = 1
           nodes == [heap.nodes EXCEPT ![1].strong = @ - 1]
       IN  IF hit_zero
           THEN /\ heap' = [heap EXCEPT !.nodes = Disposed(nodes, 1, heap.g)]
                /\ frames' = [frames EXCEPT ![t] =
                       [Deeper(@, <<[node |-> 1, popped |-> PopEdges(nodes, 1)]>>)
                           EXCEPT !.pc = "ird"]]
           ELSE /\ heap' = [heap EXCEPT !.nodes = nodes]
                /\ frames' = [frames EXCEPT ![t].pc = "done"]
    /\ UNCHANGED rcState

\* TryIRD::try_ird on the next edge of the buffer: nothing for a null edge;
\* else the target's strong is decremented, and a target that reached zero
\* is destroyed inline inside the safe window and deferred outside it
TryIrd(t) ==
    /\ frames[t].pc = "ird"
    /\ frames[t].stack # <<>>
    /\ frames[t].stack[Len(frames[t].stack)].popped # <<>>
    /\ LET stack == frames[t].stack
           top == Len(stack)
           e == Head(stack[top].popped)
           rest == [stack EXCEPT ![top].popped = Tail(@)]
           nodes == [heap.nodes EXCEPT ![e.rc].strong = @ - 1]
       IN  IF e.rc = Null
           THEN /\ heap' = heap
                /\ frames' = [frames EXCEPT ![t] = Deeper(@, rest)]
           ELSE IF heap.nodes[e.rc].strong # 1
           THEN /\ heap' = [heap EXCEPT !.nodes = nodes]
                /\ frames' = [frames EXCEPT ![t] = Deeper(@, rest)]
           ELSE IF SafeWindow(e.stamp, heap.g)
           THEN /\ heap' = [heap EXCEPT !.nodes = Disposed(nodes, e.rc, heap.g)]
                /\ frames' = [frames EXCEPT ![t] =
                       Deeper(@, DisposeInline(rest, e.rc, PopEdges(nodes, e.rc)))]
           ELSE /\ heap' = [heap EXCEPT !.nodes = nodes,
                                        !.deferred = @ \cup {e.rc}]
                /\ frames' = [frames EXCEPT ![t] = Deeper(@, rest)]
    /\ UNCHANGED rcState

\* a dispose whose buffer is drained returns to its caller
IrdReturn(t) ==
    /\ frames[t].pc = "ird"
    /\ frames[t].stack # <<>>
    /\ frames[t].stack[Len(frames[t].stack)].popped = <<>>
    /\ frames' = [frames EXCEPT
           ![t].stack = SubSeq(@, 1, Len(@) - 1),
           ![t].pc = IF Len(frames[t].stack) = 1 THEN "done" ELSE "ird"]
    /\ UNCHANGED <<heap, rcState>>

\* a chain of one to MaxChain nodes at the time of the drop: the global epoch
\* is g, every edge carries some earlier or equal installation epoch, and a
\* node may have an owner besides its predecessor
InitIrd ==
    /\ Init!1 /\ Init!2 /\ Init!3 /\ Init!4 /\ Init!5 /\ Init!6 /\ Init!7 /\ Init!8
    /\ Init!9 /\ Init!10 /\ Init!11 /\ Init!12 /\ Init!13 /\ Init!14 /\ Init!15
    /\ Init!16 /\ Init!17 /\ Init!18 /\ Init!19 /\ Init!20
    /\ \E len \in 1..MaxChain :
       \E counts \in [1..len -> 1..2] :
       \E stamps \in [1..len -> 0..MaxEpoch] :
           heap = [nodes |-> [n \in 1..len |-> ChainNode(n, len, counts[n], stamps[n])],
                   deferred |-> {}, g |-> MaxEpoch]
    /\ frames = [t \in Threads |-> IrdFrame]

NextIrd ==
    \/ IrdBegin(1)
    \/ TryIrd(1)
    \/ IrdReturn(1)

SpecIrd == InitIrd /\ [][NextIrd]_vars

\* the chain of the claim: no node has another owner, and every edge was
\* installed at least two epochs before the drop
AgedChain ==
    \A n \in 1..Len(heap.nodes) :
        /\ heap.nodes[n].owners = 1
        /\ n < Len(heap.nodes) => SafeWindow(heap.nodes[n].install, heap.g)

NextEdge == Head(frames[1].stack[Len(frames[1].stack)].popped)

C32_ResurrectionBookkeeping ==
    [][/\ \A t \in Threads :
            (Counted(t) /\ strong[snap[t].ptr] = 0) =>
                /\ strong'[snap[t].ptr] = 1
                /\ pc'[t] = "inc2"
                /\ rcs' = rcs
       /\ \A t \in Threads :
            IncrementStrongAgain(t) =>
                /\ strong'[arg[t].word.ptr] = strong[arg[t].word.ptr] + 1
                /\ CopiesIn(arg[t].word, rcs'[t]) = CopiesIn(arg[t].word, rcs[t]) + 1
       /\ \A e \in BagToSet(bags) :
            (TryZero(e) /\ strong[e.blk] # 0) =>
                /\ zeroing' = zeroing /\ disposed' = disposed /\ freed' = freed
                /\ strong'[e.blk] = strong[e.blk] - 1
                /\ bags' = (bags (-) SetToBag({e})) (+)
                           (IF strong[e.blk] = 1
                            THEN SetToBag({[blk |-> e.blk, stamp |-> epoch]})
                            ELSE EmptyBag)
                /\ strong'[e.blk] = Owners(e.blk)]_vars

\* C32's case: the try_zero deferred for a zero has run after a counted()
\* raised the count from that zero, the Rc is still held, and strong is the
\* number of owners again.
C32_Witness ==
    \E b \in resurrected :
        /\ RcCount(b) > 0 /\ strong[b] = Owners(b)
        /\ PendingCount(b) = 0 /\ zeroing[b] = 0 /\ disposed[b] = 0
        /\ epoch >= destruct_epoch[b] + 2


\* C33 as the specification states it, in the case it names: the step in
\* which a compare_exchange, compare_exchange_weak or compare_exchange_tag
\* that went around its loop succeeds with a non-null new word leaves in the
\* slot a word whose epoch bits are the global epoch of that step.
C33_StampAtSuccess ==
    [][\A t \in Threads :
          /\ (/\ CompareExchangeStep(t)
              /\ link = arg[t].expected_raw
              /\ arg[t].retried
              /\ ~IsNull(arg[t].desired_raw))
                => link'.hi = epoch % (2 ^ HighBits)
          /\ (/\ CompareExchangeTagStep(t)
              /\ link = arg[t].expected_raw
              /\ arg[t].retried
              /\ ~IsNull(arg[t].desired_raw))
                => link'.hi = epoch % (2 ^ HighBits)]_vars


\* The life of a slot from its construction: no slot exists at the start; the
\* threads pin, make Rcs, construct the slot by AtomicRc::new or from an Rc,
\* install words by store, swap and compare_exchange, and drop the slot,
\* while the global epoch advances.
InitInstall ==
    /\ Init!1 /\ Init!2 /\ Init!3 /\ Init!4 /\ Init!5 /\ Init!6
    /\ linkLive = FALSE
    /\ Init!8 /\ Init!9 /\ Init!10 /\ Init!11 /\ Init!12 /\ Init!13 /\ Init!14
    /\ Init!15 /\ Init!16 /\ Init!17 /\ Init!18 /\ Init!19 /\ Init!20
    /\ Init!21 /\ Init!22

NextInstall ==
    \/ \E t \in Threads : Pin(t)
    \/ Advance
    \/ \E t \in Threads : RcNew(t)
    \/ \E t \in Threads : AtomicRcNew(t)
    \/ \E t \in Threads : \E w \in Passable(t) : AtomicRcFrom(t, w)
    \/ \E t \in Threads : Load(t)
    \/ \E t \in Threads : \E w \in Passable(t) : Store(t, w)
    \/ \E t \in Threads : \E w \in Passable(t) : Swap(t, w)
    \/ \E t \in Threads : \E w \in Passable(t) : CompareExchangeBegin(t, w)
    \/ \E t \in Threads : CompareExchangeStep(t)
    \/ \E t \in Threads : Return(t)
    \/ AtomicRcDrop

SpecInstall == InitInstall /\ [][NextInstall]_vars

\* C34 as the specification states it: every operation that puts a word into
\* a slot (new, from(Rc), store, swap, compare_exchange) puts a non-null word
\* with the global epoch it read as its epoch bits, and a null word as it is.
C34_InstallationStamping ==
    [][/\ \A t \in Threads : \A w \in Passable(t) :
            (Store(t, w) \/ Swap(t, w) \/ AtomicRcFrom(t, w)) =>
                link' = IF w.ptr = Null THEN w
                        ELSE [w EXCEPT !.hi = epoch % (2 ^ HighBits)]
       /\ \A t \in Threads :
            AtomicRcNew(t) => link'.ptr # Null /\ link'.hi = epoch % (2 ^ HighBits)
       /\ \A t \in Threads : \A w \in Passable(t) :
            CompareExchangeBegin(t, w) =>
                arg'[t].desired_raw = IF w.ptr = Null THEN w
                                      ELSE [w EXCEPT !.hi = epoch % (2 ^ HighBits)]
       /\ \A t \in Threads :
            (CompareExchangeStep(t) /\ link' # link) => link' = arg[t].desired_raw]_vars


\* C35: epoch advancement.  No step decreases the global epoch; a step that
\* changes it adds one and is taken in a state where the local epoch of every
\* pinned participant is at least the global epoch; so in every state a
\* pinned participant's local epoch is the global epoch or the one before.
C35_EpochAdvancement ==
    /\ [][/\ epoch' >= epoch
          /\ epoch' # epoch =>
                /\ epoch' = epoch + 1
                /\ \A t \in Threads : local[t] # Unpinned => local[t] >= epoch]_vars
    /\ [](\A t \in Threads :
            local[t] # Unpinned => (local[t] <= epoch /\ epoch <= local[t] + 1))

\* C35's case: the global epoch has advanced twice or more, one participant
\* is pinned in the epoch before the global one and holds it back, while
\* another has pinned in the global epoch.
C35_Witness ==
    /\ epoch >= 2
    /\ \E t \in Threads : \E u \in Threads :
        /\ local[t] # Unpinned /\ local[t] = epoch - 1
        /\ local[u] = epoch


\* Null handles beside a counted object: the slot starts null, with any user
\* tag; the threads pin, make an Rc, call clone, drop, finalize, counted and
\* downgrade on null handles, store and swap null and non-null words, take
\* the slot's word, drop the slot and make it again.
InitNull ==
    /\ Init!1 /\ Init!2 /\ Init!3 /\ Init!4 /\ Init!5
    /\ link \in NullWords
    /\ Init!7 /\ Init!8 /\ Init!9 /\ Init!10 /\ Init!11 /\ Init!12 /\ Init!13 /\ Init!14
    /\ Init!15 /\ Init!16 /\ Init!17 /\ Init!18 /\ Init!19 /\ Init!20
    /\ Init!21 /\ Init!22

NextNull ==
    \/ \E t \in Threads : Pin(t)
    \/ \E t \in Threads : RcNew(t)
    \/ \E t \in Threads : \E op \in HandleOps : \E w \in NullWords : NullHandleCall(t, op, w)
    \/ \E t \in Threads : Return(t)
    \/ \E t \in Threads : Load(t)
    \/ \E t \in Threads : \E w \in Passable(t) : Store(t, w)
    \/ \E t \in Threads : \E w \in Passable(t) : Swap(t, w)
    \/ \E t \in Threads : AtomicRcTake(t)
    \/ AtomicRcDrop
    \/ \E t \in Threads : \E w \in Passable(t) : AtomicRcFrom(t, w)

SpecNull == InitNull /\ [][NextNull]_vars

\* C36: null handles are inert.  Clone, drop, finalize, counted and downgrade
\* of a null handle, the drop and the take of a slot that holds null, and a
\* store or swap that replaces null change no strong or weak counter, dispose
\* and free nothing and queue no deferred work; take and swap hand no Rc back
\* for the null they replace; a null word with a user tag counts as null.
C36_NullInert ==
    [][LET Frame == /\ strong' = strong /\ weak' = weak /\ bags' = bags
                    /\ zeroing' = zeroing /\ disposed' = disposed /\ freed' = freed
       IN
       /\ \A t \in Threads : \A op \in HandleOps : \A w \in NullWords :
            NullHandleCall(t, op, w) =>
                /\ Frame
                /\ BagToSet(rcs'[t]) = BagToSet(rcs[t])
                /\ BagToSet(weaks'[t]) = BagToSet(weaks[t])
       /\ (AtomicRcDrop /\ link.ptr = Null) => Frame
       /\ \A t \in Threads :
            (AtomicRcTake(t) /\ link.ptr = Null) => (Frame /\ rcs' = rcs)
       /\ \A t \in Threads : \A w \in Passable(t) :
            ((Store(t, w) \/ Swap(t, w)) /\ link.ptr = Null) =>
                /\ Frame
                /\ BagCardinality(rcs'[t]) =
                        BagCardinality(rcs[t]) - (IF w.ptr = Null THEN 0 ELSE 1)]_vars

\* C36's case: beside an allocated object, a thread has finalized a null Rc
\* that carries a user tag while the slot holds a tagged null, and nothing is
\* queued.
C36_Witness ==
    \E t \in Threads :
        /\ pc[t] = "ret" /\ res[t].kind = "finalize" /\ res[t].word.tag # 0
        /\ linkLive /\ link.ptr = Null /\ link.tag # 0
        /\ alloc # {} /\ bags = EmptyBag

====
